---- MODULE Spec2Model ----
(***************************************************************************)
(* Model of SymbolFile (src/src/documentation.ts, lines 1256-1439): the    *)
(* per-file symbol extraction of readDocument, its subroutine boundary     *)
(* pass, clear(), and the asynchronous readFile wrapper.                   *)
(*                                                                         *)
(* Strings are sequences of one-character strings so that indexOf,         *)
(* replace, toLowerCase and concatenation are computed, not assumed.       *)
(* A Symbol object is identified by its position in the array that holds   *)
(* it: lastLabel, lastParent, labelsBeforeRts and dcLabel hold references  *)
(* (1-based positions in labels), as the code compares objects by          *)
(* identity (labelsBeforeRts.indexOf(l)).                                  *)
(***************************************************************************)
EXTENDS Integers, Sequences, FiniteSets, TLC

VARIABLES
    document,        \* the TextDocument last handed to readDocument (its parsed lines)
    sf,              \* the fields of the SymbolFile
    passLog,         \* locals of the last readDocument: labelsBeforeRts and the
                     \* labels at which the boundary pass set or reset inSub
    reread,          \* the last readDocument was given the same document again
    prevIncludeDir,  \* includeDir as it was when the last readDocument began
    fileText,        \* the text workspace.openTextDocument would open now
    calls,           \* per readFile call: idle, opening, loaded, done, rejected
    snap,            \* per readFile call: the document its open produced
    observed,        \* what a reader last got from the getters
    observedDoc,     \* the document of the last completed parse at that moment
    lineTexts,       \* the line texts of the document open in the editor
    cursor,          \* the position of the last completion request
    returned,        \* the items the last completion request returned
    probe,           \* locals of the last provideCompletionItems call
    fsEntries,       \* the entries of the file system
    manager,         \* the maps of the DocumentationManager
    got,             \* the last DocumentationManager.get: keyword and result
    compared,        \* the last Version comparisons: arguments and results
    zip,             \* the last getZipURL: tags, requested version and result
    downloads        \* the last downloadProject: items, version and effects

vars == <<document, sf, passLog, reread, prevIncludeDir,
          fileText, calls, snap, observed, observedDoc,
          lineTexts, cursor, returned, probe, fsEntries,
         manager, got, compared, zip, downloads>>

docVars == <<document, sf, passLog, reread, prevIncludeDir>>
fileVars == <<fileText, calls, snap, observed, observedDoc>>
compVars == <<lineTexts, cursor, returned, probe, fsEntries>>
toolVars == <<manager, got, compared, zip, downloads>>

------------------------------------------------------------------------------
(* Bounds *)

MaxLines == 4
NumCalls == 2
MaxSymLines == 3
MaxTokens == 4
MaxCompLines == 3
MaxFieldLines == 2
MaxDocFiles == 3
MaxTags == 3
MaxItems == 3

------------------------------------------------------------------------------
(* JavaScript string primitives *)

UpperChars == <<"A","B","C","D","E","F","G","H","I","J","K","L","M",
                "N","O","P","Q","R","S","T","U","V","W","X","Y","Z">>
LowerChars == <<"a","b","c","d","e","f","g","h","i","j","k","l","m",
                "n","o","p","q","r","s","t","u","v","w","x","y","z">>

ToLowerChar(c) ==
    IF \E i \in 1..Len(UpperChars) : UpperChars[i] = c
    THEN LowerChars[CHOOSE i \in 1..Len(UpperChars) : UpperChars[i] = c]
    ELSE c

ToLowerCase(s) == [i \in 1..Len(s) |-> ToLowerChar(s[i])]

\* The least element of a set of positions, or -1 for the empty set
FirstOf(hits) ==
    IF hits = {} THEN -1 ELSE CHOOSE i \in hits : \A j \in hits : i <= j

\* String.prototype.indexOf: 0-based position of the first occurrence, or -1
IndexOf(s, sub) ==
    FirstOf({i \in 0..(Len(s) - Len(sub)) : SubSeq(s, i + 1, i + Len(sub)) = sub})

\* s without the character at 0-based position p (s itself when p is -1)
RemoveAt(s, p) ==
    IF p < 0 THEN s ELSE SubSeq(s, 1, p) \o SubSeq(s, p + 2, Len(s))

\* s.replace(c, ""): removes the first occurrence only
ReplaceFirst(s, c) == RemoveAt(s, IndexOf(s, <<c>>))

\* A replace with a string pattern, which removes one occurrence only
ReplaceOnce(s, c) == ReplaceFirst(s, c)

\* s.replace(/c/g, ""): removes every occurrence
ReplaceAll(s, c) == SelectSeq(s, LAMBDA x : x # c)

\* The text JavaScript produces for `undefined + "..."`
UndefinedText == <<"u","n","d","e","f","i","n","e","d">>

\* Marker of an omitted optional constructor argument (value?: string)
NoValue == <<"<undefined>">>

------------------------------------------------------------------------------
(* vscode.Range *)

MkRange(sl, sc, el, ec) == [sl |-> sl, sc |-> sc, el |-> el, ec |-> ec]

PosBefore(l1, c1, l2, c2) == l1 < l2 \/ (l1 = l2 /\ c1 <= c2)

\* The range from the start of s to the end of e
Span(s, e) == [sl |-> s.sl, sc |-> s.sc, el |-> e.el, ec |-> e.ec]

\* Range.union: the smallest range that contains both
RangeUnion(a, b) ==
    Span(IF PosBefore(a.sl, a.sc, b.sl, b.sc) THEN a ELSE b,
         IF PosBefore(b.el, b.ec, a.el, a.ec) THEN a ELSE b)

\* Range.contains(range)
RangeContains(a, b) ==
    /\ PosBefore(a.sl, a.sc, b.sl, b.sc)
    /\ PosBefore(b.el, b.ec, a.el, a.ec)

------------------------------------------------------------------------------
(* Symbol *)

\* A constructor that leaves parent at its field initialiser ""
NewSymbolNoParent(label, range, value) ==
    [label |-> label, range |-> range, value |-> value, parent |-> <<>>]

\* new Symbol(label, file, range, value?): parent starts as the label
NewSymbol(label, range, value) ==
    [label |-> label, range |-> range, value |-> value, parent |-> label]

------------------------------------------------------------------------------
(* ASMLine: the parsed line handed to readDocument.  The parser fills        *)
(* label, instruction, data, variable and value from the line text; the      *)
(* model takes these fields as the input and lays the text out as            *)
(* label, blank, instruction, blank, data to position the ranges.            *)

ASMLine(label, instruction, data, variable, value) ==
    [label |-> label, instruction |-> instruction, data |-> data,
     variable |-> variable, value |-> value]

\* s up to 0-based position p (s itself when p is -1)
CutAt(s, p) == IF p < 0 THEN s ELSE SubSeq(s, 1, p)

\* mnemonic: the instruction without its size suffix
MnemonicOf(instruction) == CutAt(instruction, IndexOf(instruction, <<".">>))

LeftLen(line) == IF Len(line.variable) > 0 THEN Len(line.variable) ELSE Len(line.label)

\* The range of len characters from column col of line i
FieldRange(i, col, len) == MkRange(i, col, i, col + len)

LabelRange(line, i) == FieldRange(i, 0, Len(line.label))
VariableRange(line, i) == FieldRange(i, 0, Len(line.variable))
MnemonicRange(line, i, mnemonic) == FieldRange(i, LeftLen(line) + 1, Len(mnemonic))
DataRange(line, i) ==
    FieldRange(i, LeftLen(line) + Len(line.instruction) + 2, Len(line.data))

\* getSymbolFromLabelOrVariable: <<>> stands for [undefined, undefined]
GetSymbolFromLabelOrVariable(line, i) ==
    IF Len(line.variable) > 0 THEN <<[symbol |-> line.variable, range |-> VariableRange(line, i)]>>
    ELSE IF Len(line.label) > 0 THEN <<[symbol |-> line.label, range |-> LabelRange(line, i)]>>
    ELSE <<>>

IsWordChar(c) ==
    \/ \E k \in 1..Len(UpperChars) : UpperChars[k] = c \/ LowerChars[k] = c
    \/ c = "_" \/ c = "."

\* The data field is an identifier
IsIdentifier(data) ==
    Len(data) > 0 /\ \A k \in 1..Len(data) : IsWordChar(data[k])

\* getSymbolFromData: the identifier of the data field (the lines of the
\* model carry at most one identifier in their data)
GetSymbolFromData(line, i, dataIsIdentifier) ==
    IF dataIsIdentifier
    THEN <<[symbol |-> line.data, range |-> DataRange(line, i)]>>
    ELSE <<>>

------------------------------------------------------------------------------
(* The line parser: the text of a line is cut, left to right, into label,    *)
(* instruction (mnemonic and size), data and comment.  Columns are 0-based;  *)
(* a field that is absent is empty at the column where it would start.       *)

\* The least element of hits, or d when there is none
MinOr(hits, d) == IF hits = {} THEN d ELSE CHOOSE i \in hits : \A j \in hits : i <= j

\* The first column at or after from whose character satisfies Stop, or the
\* length of the text
FirstPosFrom(s, from, Stop(_)) ==
    MinOr({i \in from..(Len(s) - 1) : Stop(s[i + 1])}, Len(s))

\* A comment marker stands at column p
IsCommentStart(s, p) == p < Len(s) /\ s[p + 1] \in {";", "*"}

\* The label starts at column 0 of a line that does not start with a blank
\* or a comment marker; it ends at the first blank, ':' (which it keeps),
\* ';' or size suffix
LabelEndAt(s, stop) == IF stop < Len(s) /\ s[stop + 1] = ":" THEN stop + 1 ELSE stop
LabelEnd(s) ==
    IF Len(s) = 0 \/ s[1] = " " \/ IsCommentStart(s, 0) THEN 0
    ELSE LabelEndAt(s, FirstPosFrom(s, 1, LAMBDA c : c \in {" ", ":", ";", "."}))

\* The first ';' outside a quoted string, from the start of the data on
CommentStartFrom(s, ds) ==
    MinOr({i \in ds..(Len(s) - 1) :
              /\ s[i + 1] = ";"
              /\ Cardinality({q \in ds..(i - 1) : s[q + 1] = "\""}) % 2 = 0}, Len(s))

\* The characters of columns [from, to)
Cut(s, from, to) == SubSeq(s, from + 1, to)

\* The parsed line with its columns: le label end, [is, ie) instruction,
\* [ds, de) data, cs comment start; the mnemonic ends at the first '.' of
\* the instruction
Parts(s, le, is, ie, ds, de, cs) ==
    [text |-> s, labelEnd |-> le, instrStart |-> is, instrEnd |-> ie,
     mnemonicEnd |-> MinOr({i \in is..(ie - 1) : s[i + 1] = "."}, ie),
     dataStart |-> ds, dataEnd |-> de, commentStart |-> cs, end |-> Len(s)]

\* The data from column ds on: up to the comment, or none when the comment
\* starts there
ParseData(s, le, is, ie, ds) ==
    IF IsCommentStart(s, ds) THEN Parts(s, le, is, ie, ds, ds, ds)
    ELSE Parts(s, le, is, ie, ds, CommentStartFrom(s, ds), CommentStartFrom(s, ds))

\* The instruction from column is on: the token up to a blank or ';', the
\* data after the blanks that follow it
ParseInstruction(s, le, is) ==
    IF IsCommentStart(s, is) THEN Parts(s, le, is, is, is, is, is)
    ELSE ParseData(s, le, is, FirstPosFrom(s, is, LAMBDA c : c \in {" ", ";"}),
                   FirstPosFrom(s, FirstPosFrom(s, is, LAMBDA c : c \in {" ", ";"}),
                                LAMBDA c : c # " "))

\* The columns of the fields of a line text
ParseLine(s) ==
    ParseInstruction(s, LabelEnd(s), FirstPosFrom(s, LabelEnd(s), LAMBDA c : c # " "))

\* The fields readDocument reads from a parsed line; name = value is an
\* assignment
FieldsOf(p) ==
    IF p.labelEnd > 0 /\ Cut(p.text, p.instrStart, p.instrEnd) = <<"=">>
    THEN ASMLine(<<>>, Cut(p.text, p.instrStart, p.instrEnd), <<>>,
                 Cut(p.text, 0, p.labelEnd), Cut(p.text, p.dataStart, p.dataEnd))
    ELSE ASMLine(Cut(p.text, 0, p.labelEnd), Cut(p.text, p.instrStart, p.instrEnd),
                 Cut(p.text, p.dataStart, p.dataEnd), <<>>, <<>>)

\* The ranges of a parsed line as column intervals of one line
ColumnRange(from, to) == [start |-> from, end |-> to]
PartLabelRange(p) == ColumnRange(0, p.labelEnd)
PartMnemonicRange(p) == ColumnRange(p.instrStart, p.mnemonicEnd)
PartInstructionRange(p) == ColumnRange(p.instrStart, p.instrEnd)
PartDataRange(p) == ColumnRange(p.dataStart, p.dataEnd)
PartCommentRange(p) == ColumnRange(p.commentStart, p.end)

------------------------------------------------------------------------------
(* The lines a document is made of *)

LblS      == ASMLine(<<"S", ":">>, <<>>, <<>>, <<>>, <<>>)
LblTCallS == ASMLine(<<"T">>, <<"b","s","r">>, <<"S">>, <<>>, <<>>)
LblLocal  == ASMLine(<<".", "l">>, <<>>, <<>>, <<>>, <<>>)
LblA      == ASMLine(<<"A">>, <<>>, <<>>, <<>>, <<>>)
CallT     == ASMLine(<<>>, <<"B","S","R",".","W">>, <<"T">>, <<>>, <<>>)
JumpA     == ASMLine(<<>>, <<"j","s","r">>, <<"A">>, <<>>, <<>>)
Rts       == ASMLine(<<>>, <<"r","t","s">>, <<>>, <<>>, <<>>)
LblBRts   == ASMLine(<<"B">>, <<"R","T","S">>, <<>>, <<>>, <<>>)
Incdir    == ASMLine(<<>>, <<"i","n","c","d","i","r">>, <<"\"", "d", "\"">>, <<>>, <<>>)
VarV      == ASMLine(<<>>, <<"=">>, <<>>, <<"V">>, <<"1">>)
MacroM    == ASMLine(<<"M">>, <<"m","a","c","r","o">>, <<>>, <<>>, <<>>)

LineKinds == {LblS, LblTCallS, LblLocal, LblA, CallT, JumpA, Rts, LblBRts,
              Incdir, VarV, MacroM}

\* Lines with data definitions, includes and macros
DcB        == ASMLine(<<>>, <<"d","c",".","b">>, <<"1">>, <<>>, <<>>)
LblDDs     == ASMLine(<<"D">>, <<"D","S",".","W">>, <<"X">>, <<>>, <<>>)
Incbin     == ASMLine(<<>>, <<"i","n","c","b","i","n">>, <<"\"", "f", "\"">>, <<>>, <<>>)
Include    == ASMLine(<<>>, <<"i","n","c","l","u","d","e">>, <<"\"", "f", "\"">>, <<>>, <<>>)
LblInclude == ASMLine(<<"I">>, <<"I","N","C","L","U","D","E">>, <<"g">>, <<>>, <<>>)
IncdirE    == ASMLine(<<>>, <<"I","N","C","D","I","R">>, <<"e">>, <<>>, <<>>)
MacroData  == ASMLine(<<>>, <<"m","a","c","r","o">>, <<"N">>, <<>>, <<>>)
LocalMacro == ASMLine(<<".", "m">>, <<"M","A","C","R","O">>, <<>>, <<>>, <<>>)

SymKinds == {LblS, LblTCallS, LblLocal, JumpA, Rts, Incdir, VarV, MacroM,
             DcB, LblDDs, Incbin, Include, LblInclude, IncdirE, MacroData,
             LocalMacro}

AllKinds == LineKinds \cup SymKinds

------------------------------------------------------------------------------
(* SymbolFile *)

\* The fields of a new SymbolFile
EmptySymbolFile ==
    [definedSymbols |-> <<>>, referredSymbols |-> <<>>, variables |-> <<>>,
     labels |-> <<>>, macros |-> <<>>, subroutines |-> <<>>, dcLabel |-> <<>>,
     includeDir |-> <<>>, includedFiles |-> <<>>]

\* clear() that forgets to reset includeDir
ClearKeepsIncludeDir(f) ==
    [definedSymbols |-> <<>>, referredSymbols |-> <<>>, variables |-> <<>>,
     labels |-> <<>>, macros |-> <<>>, subroutines |-> <<>>, dcLabel |-> <<>>,
     includeDir |-> f.includeDir, includedFiles |-> <<>>]

\* clear() that forgets to replace the labels array
ClearKeepsLabels(f) ==
    [definedSymbols |-> <<>>, referredSymbols |-> <<>>, variables |-> <<>>,
     labels |-> f.labels, macros |-> <<>>, subroutines |-> <<>>, dcLabel |-> <<>>,
     includeDir |-> <<>>, includedFiles |-> <<>>]

\* clear(): every array is replaced by a new empty one, includeDir by ""
Clear(f) ==
    [definedSymbols |-> <<>>, referredSymbols |-> <<>>, variables |-> <<>>,
     labels |-> <<>>, macros |-> <<>>, subroutines |-> <<>>, dcLabel |-> <<>>,
     includeDir |-> <<>>, includedFiles |-> <<>>]

InSeq(seq, x) == \E k \in 1..Len(seq) : seq[k] = x

\* A call test that accepts the bare mnemonic only
IsCallExact(instruct) == instruct = <<"b","s","r">>

\* The conditions of the else-if chain on the lower-cased instruction
IsCall(instruct) == IndexOf(instruct, <<"b","s","r">>) >= 0
IsDataDef(instruct) ==
    \/ IndexOf(instruct, <<"d","c">>) = 0
    \/ IndexOf(instruct, <<"d","s">>) = 0
    \/ IndexOf(instruct, <<"i","n","c","b","i","n">>) = 0
IsReturn(instruct) == IndexOf(instruct, <<"r","t","s">>) >= 0
IsIncdir(instruct) == instruct = <<"i","n","c","d","i","r">>
IsInclude(instruct) == instruct = <<"i","n","c","l","u","d","e">>
IsMacroDef(instruct) == IndexOf(instruct, <<"m","a","c","r","o">>) = 0

\* The branch of the else-if chain (lines 1326-1342) an instruction takes
ChainBranch(instruct) ==
    IF IsCall(instruct) THEN "bsr"
    ELSE IF IsDataDef(instruct) THEN "dc"
    ELSE IF IsReturn(instruct) THEN "rts"
    ELSE IF IsIncdir(instruct) THEN "incdir"
    ELSE IF IsInclude(instruct) THEN "include"
    ELSE "none"

\* label.indexOf(".") === 0
IsLocalLabel(label) == IndexOf(label, <<".">>) = 0

\* The values readDocument derives from the text of a line alone
FactsOf(line, instruct, label) ==
    [mnemonic |-> MnemonicOf(line.instruction),
     label |-> label,
     isLocal |-> IsLocalLabel(label),
     macro |-> IsMacroDef(instruct),
     branch |-> ChainBranch(instruct),
     dataIsIdentifier |-> IsIdentifier(line.data),
     unquoted |-> ReplaceAll(line.data, "\"")]

\* The same, computed once per line kind
LineFacts ==
    [line \in AllKinds |->
        FactsOf(line, ToLowerCase(line.instruction), ReplaceFirst(line.label, ":"))]

------------------------------------------------------------------------------
(* Lines 1279-1343: the line loop of readDocument *)

\* The state of the line loop: the SymbolFile being filled (f) and the
\* locals lastLabel (0 is null) and labelsBeforeRts
LoopStart(f) == [f |-> f, lastLabel |-> 0, labelsBeforeRts |-> <<>>]

\* The symbols of the pairs [symbol, range] of a result list
SymbolsOf(results) ==
    [k \in 1..Len(results) |-> NewSymbol(results[k].symbol, results[k].range, NoValue)]

\* The referred symbol of the mnemonic, when the line has one
MnemonicSymbol(line, i, mnemonic) ==
    IF Len(mnemonic) > 0
    THEN <<NewSymbol(mnemonic, MnemonicRange(line, i, mnemonic), NoValue)>>
    ELSE <<>>

\* A loop body that records the referred symbols of every line
DefinedAndReferred(st, def, fromData, fromMnemonic) ==
    [st EXCEPT !.f.definedSymbols = @ \o SymbolsOf(def),
               !.f.referredSymbols = @ \o SymbolsOf(fromData) \o fromMnemonic]

\* Lines 1287-1300 on the results def and fromData of the two getters
DefinedOrReferred(st, def, fromData, fromMnemonic) ==
    IF Len(def) > 0
    THEN [st EXCEPT !.f.definedSymbols = @ \o SymbolsOf(def)]
    ELSE [st EXCEPT !.f.referredSymbols = @ \o SymbolsOf(fromData) \o fromMnemonic]

\* Lines 1286-1300: one defined symbol, or the referred symbols of the line
AddDefinedOrReferred(st, line, i, facts) ==
    DefinedOrReferred(st, GetSymbolFromLabelOrVariable(line, i),
                      GetSymbolFromData(line, i, facts.dataIsIdentifier),
                      MnemonicSymbol(line, i, facts.mnemonic))

\* A lastLabel that contributes no text while it is null
LastLabelTextOrEmpty(st) ==
    IF st.lastLabel = 0 THEN <<>> ELSE st.f.labels[st.lastLabel].label

\* lastLabel?.getLabel() as a piece of a concatenation
LastLabelText(st) ==
    IF st.lastLabel = 0 THEN UndefinedText ELSE st.f.labels[st.lastLabel].label

\* A local label stored without the text of the last global label
StoredLabelRaw(st, facts) == facts.label

\* Lines 1303-1307: the text stored as the label of the line's symbol
StoredLabel(st, facts) ==
    IF facts.isLocal THEN LastLabelText(st) \o facts.label ELSE facts.label

\* A loop body in which every label, local or not, becomes lastLabel
PushLabelSetsLast(st, facts, s) ==
    IF facts.macro
    THEN [st EXCEPT !.f.macros = Append(@, s)]
    ELSE [st EXCEPT !.f.labels = Append(@, s), !.lastLabel = Len(st.f.labels) + 1]

\* Lines 1310-1317: the symbol s of a labelled line goes to macros or labels
PushLabelOrMacro(st, facts, s) ==
    IF facts.macro
    THEN [st EXCEPT !.f.macros = Append(@, s)]
    ELSE [st EXCEPT !.f.labels = Append(@, s),
                    !.lastLabel = IF facts.isLocal THEN @ ELSE Len(st.f.labels) + 1]

\* Lines 1301-1322: label or macro
AddLabelOrMacro(st, line, i, facts) ==
    IF Len(line.label) > 0
    THEN PushLabelOrMacro(st, facts,
             NewSymbol(StoredLabel(st, facts), LabelRange(line, i), NoValue))
    ELSE IF facts.macro
    THEN [st EXCEPT !.f.macros =
              Append(@, NewSymbol(line.data, DataRange(line, i), NoValue))]
    ELSE st

\* Lines 1323-1325
AddVariable(st, line, i) ==
    IF Len(line.variable) > 0
    THEN [st EXCEPT !.f.variables =
              Append(@, NewSymbol(line.variable, VariableRange(line, i), line.value))]
    ELSE st

\* An include that is recorded in includedFiles only
PushIncludeOnly(st, includeSymbol) ==
    [st EXCEPT !.f.includedFiles = Append(@, includeSymbol)]

\* Lines 1339-1341: the include symbol goes to includedFiles and definedSymbols
PushInclude(st, includeSymbol) ==
    [st EXCEPT !.f.includedFiles = Append(@, includeSymbol),
               !.f.definedSymbols = Append(@, includeSymbol)]

\* Lines 1326-1342: the else-if chain on the instruction
AddInstruction(st, line, i, facts) ==
    CASE facts.branch = "bsr" -> [st EXCEPT !.f.subroutines = Append(@, line.data)]
      [] facts.branch = "dc" ->
            IF st.lastLabel # 0
            THEN [st EXCEPT !.f.dcLabel = Append(@, st.lastLabel)]
            ELSE st
      [] facts.branch = "rts" ->
            IF st.lastLabel # 0
            THEN [st EXCEPT !.labelsBeforeRts = Append(@, st.lastLabel)]
            ELSE st
      [] facts.branch = "incdir" -> [st EXCEPT !.f.includeDir = facts.unquoted]
      [] facts.branch = "include" ->
            PushInclude(st, NewSymbol(facts.unquoted, DataRange(line, i), NoValue))
      [] OTHER -> st

\* The body of the line loop for line i (0-based), given the facts of the line
LineStepWith(st, line, i, facts) ==
    AddInstruction(
        AddVariable(
            AddLabelOrMacro(AddDefinedOrReferred(st, line, i, facts), line, i, facts),
            line, i),
        line, i, facts)

LineStep(st, line, i) ==
    LineStepWith(st, line, i,
                 IF line \in AllKinds THEN LineFacts[line]
                 ELSE FactsOf(line, ToLowerCase(line.instruction),
                              ReplaceFirst(line.label, ":")))

\* A loop that stops one line early
LinesScannedShort(doc) == IF Len(doc) > 0 THEN Len(doc) - 1 ELSE 0

\* The number of lines the loop visits (i < document.lineCount)
LinesScanned(doc) == Len(doc)

RECURSIVE LineLoop(_, _, _)
\* The state after the first n lines of doc
LineLoop(st, doc, n) ==
    IF n = 0 THEN st
    ELSE LineStep(LineLoop(st, doc, n - 1), doc[n], n - 1)

------------------------------------------------------------------------------
(* Lines 1344-1358: the subroutine boundary pass over this.labels *)

BoundaryStart(labels) ==
    [labels |-> labels, inSub |-> FALSE, lastParent |-> 0,
     started |-> {}, ended |-> {}]

\* this.subroutines.indexOf(l.getLabel()) >= 0
IsEntry(subroutines, l) == InSeq(subroutines, l.label)

\* labelsBeforeRts.indexOf(l) > 0, which misses the first element
EndsTrackingSkipsFirst(labelsBeforeRts, k) ==
    \E i \in 2..Len(labelsBeforeRts) : labelsBeforeRts[i] = k

\* labelsBeforeRts.indexOf(l) >= 0, on object identity
EndsTracking(labelsBeforeRts, k) == InSeq(labelsBeforeRts, k)

\* setParent without widening the range of the parent
AssignParentOnly(labels, k, p) ==
    [j \in 1..Len(labels) |->
        IF j = k THEN [labels[j] EXCEPT !.parent = labels[p].label]
        ELSE labels[j]]

\* l.setParent(lastParent.getLabel()); lastParent.setRange(range.union(l.getRange()))
AssignParent(labels, k, p) ==
    [j \in 1..Len(labels) |->
        IF j = k THEN [labels[j] EXCEPT !.parent = labels[p].label]
        ELSE IF j = p THEN [labels[j] EXCEPT !.range = RangeUnion(labels[p].range, labels[k].range)]
        ELSE labels[j]]

\* A pass in which a call target met inside a subroutine does not become
\* the parent
TrackLabelKeepsParent(ps, k, subroutines) ==
    IF IsEntry(subroutines, ps.labels[k]) /\ ~ps.inSub
    THEN [ps EXCEPT !.inSub = TRUE, !.lastParent = k, !.started = @ \cup {k}]
    ELSE IF ps.inSub /\ ps.lastParent # 0
    THEN [ps EXCEPT !.labels = AssignParent(ps.labels, k, ps.lastParent)]
    ELSE ps

\* The parent and tracking update for the k-th label (lines 1347-1354)
TrackLabel(ps, k, subroutines) ==
    IF IsEntry(subroutines, ps.labels[k])
    THEN [ps EXCEPT !.inSub = TRUE, !.lastParent = k, !.started = @ \cup {k}]
    ELSE IF ps.inSub /\ ps.lastParent # 0
    THEN [ps EXCEPT !.labels = AssignParent(ps.labels, k, ps.lastParent)]
    ELSE ps

\* Lines 1355-1357 on the state left by lines 1347-1354
EndTracking(tracked, k, labelsBeforeRts) ==
    IF EndsTracking(labelsBeforeRts, k)
    THEN [tracked EXCEPT !.inSub = FALSE, !.ended = @ \cup {k}]
    ELSE tracked

\* The body of the loop for the k-th label
BoundaryStep(ps, k, subroutines, labelsBeforeRts) ==
    EndTracking(TrackLabel(ps, k, subroutines), k, labelsBeforeRts)

RECURSIVE BoundaryLoop(_, _, _, _)
BoundaryLoop(ps, n, subroutines, labelsBeforeRts) ==
    IF n = 0 THEN ps
    ELSE BoundaryStep(BoundaryLoop(ps, n - 1, subroutines, labelsBeforeRts),
                      n, subroutines, labelsBeforeRts)

\* The fields after the pass and the locals of the call
ReadResult(st, ps) ==
    [f |-> [st.f EXCEPT !.labels = ps.labels],
     log |-> [labelsBeforeRts |-> st.labelsBeforeRts, lastLabel |-> st.lastLabel,
              started |-> ps.started, ended |-> ps.ended]]

\* The pass on the state st the line loop left
BoundaryPass(st) ==
    ReadResult(st, BoundaryLoop(BoundaryStart(st.f.labels), Len(st.f.labels),
                                st.f.subroutines, st.labelsBeforeRts))

\* readDocument(document) on a SymbolFile with fields f: the new fields and
\* the locals of the call
ReadDocument(f, doc) ==
    BoundaryPass(LineLoop(LoopStart(Clear(f)), doc, LinesScanned(doc)))

\* getDcLabels(): the Symbol objects dcLabel refers to
GetDcLabels(f) == [k \in 1..Len(f.dcLabel) |-> f.labels[f.dcLabel[k]]]

\* What a reader obtains from the getters
Getters(f) == [f EXCEPT !.dcLabel = GetDcLabels(f)]

\* readFile that clears the fields before awaiting the document
ReadFileClearsBeforeAwait(f) == Clear(f)

\* readFile up to its await: no field is touched before the document is open
ReadFileBeforeAwait(f) == f

\* readFile that clears the fields when the open fails
ReadFileClearsOnReject(f) == Clear(f)

\* readFile when openTextDocument rejects: the await throws, readDocument
\* is not reached and the returned promise rejects
ReadFileOnReject(f) == f

------------------------------------------------------------------------------
(* The editor calling readDocument on a document as it is being edited *)

EmptyLog == [labelsBeforeRts |-> <<>>, lastLabel |-> 0, started |-> {}, ended |-> {}]

Init ==
    /\ document = <<>>
    /\ sf = EmptySymbolFile
    /\ passLog = EmptyLog
    /\ reread = FALSE
    /\ prevIncludeDir = <<>>
    /\ fileText = <<>>
    /\ calls = [c \in 1..NumCalls |-> "idle"]
    /\ snap = [c \in 1..NumCalls |-> <<>>]
    /\ observed = EmptySymbolFile
    /\ observedDoc = <<>>
    /\ lineTexts = <<>>
    /\ cursor = [line |-> 0, character |-> 0]
    /\ returned = <<>>
    /\ probe = [branch |-> "idle", isInComment |-> FALSE, isInMnemonic |-> FALSE,
                isInData |-> FALSE, isInSize |-> FALSE,
                wordRange |-> [start |-> -1, end |-> -1],
                labelPrefix |-> <<>>, word |-> <<>>,
                includeDir |-> [found |-> FALSE, file |-> <<>>]]
    /\ fsEntries = {}
    /\ manager = [registersByAddress |-> <<>>, registersByName |-> <<>>,
                  functionsByName |-> <<>>, files |-> 0]
    /\ got = [asked |-> FALSE, keyword |-> <<>>, value |-> <<"<null>">>]
    /\ compared = [called |-> FALSE]
    /\ zip = [called |-> FALSE, tags |-> <<>>, requested |-> <<>>, failed |-> FALSE,
              platform |-> "linux",
              version |-> [major |-> 0, minor |-> 0, increment |-> 0], url |-> <<>>]
    /\ downloads = [called |-> FALSE, items |-> <<>>, before |-> <<>>, deleted |-> {},
                    started |-> FALSE,
                    selected |-> [major |-> 0, minor |-> 0, increment |-> 0]]

\* The SymbolFile takes the result r of readDocument(doc)
Install(r, doc) ==
    /\ sf' = r.f
    /\ passLog' = r.log
    /\ document' = doc
    /\ reread' = (doc = document)
    /\ prevIncludeDir' = sf.includeDir

DoRead(doc) ==
    /\ Install(ReadDocument(sf, doc), doc)
    /\ UNCHANGED fileVars
    /\ UNCHANGED compVars
    /\ UNCHANGED toolVars

\* A line was typed at the end of the document
ReadAfterAppend ==
    /\ Len(document) < MaxLines
    /\ \E line \in LineKinds : DoRead(Append(document, line))

\* The last line was deleted
ReadAfterDelete ==
    /\ Len(document) > 0
    /\ DoRead(SubSeq(document, 1, Len(document) - 1))

\* The first line was deleted
ReadAfterDeleteFirst ==
    /\ Len(document) > 0
    /\ DoRead(SubSeq(document, 2, Len(document)))

\* readDocument is called again on the unchanged document
ReadAgain == DoRead(document)

Next == ReadAfterAppend \/ ReadAfterDelete \/ ReadAfterDeleteFirst \/ ReadAgain

Spec == Init /\ [][Next]_vars

------------------------------------------------------------------------------
(* The same editor on documents with data definitions, includes and macros *)

SymAfterAppend ==
    /\ Len(document) < MaxSymLines
    /\ \E line \in SymKinds : DoRead(Append(document, line))

SymAfterDelete ==
    /\ Len(document) > 0
    /\ DoRead(SubSeq(document, 1, Len(document) - 1))

NextSym == SymAfterAppend \/ SymAfterDelete

SpecSym == Init /\ [][NextSym]_vars

------------------------------------------------------------------------------
(* readFile: overlapping calls on one SymbolFile, the file changing on disk, *)
(* and readers of the getters                                                *)

FileDocs == { <<>>,
              <<Incdir, LblA>>,
              <<LblTCallS, LblS, LblA, Rts>>,
              <<VarV, MacroM, LblLocal>> }

EditFile ==
    /\ \E d \in FileDocs : d # fileText /\ fileText' = d
    /\ UNCHANGED <<docVars, calls, snap, observed, observedDoc, compVars, toolVars>>

CallReadFile(c) ==
    /\ calls[c] = "idle"
    /\ calls' = [calls EXCEPT ![c] = "opening"]
    /\ sf' = ReadFileBeforeAwait(sf)
    /\ UNCHANGED <<document, passLog, reread, prevIncludeDir,
                   fileText, snap, observed, observedDoc, compVars, toolVars>>

\* openTextDocument obtains the text
OpenLoads(c) ==
    /\ calls[c] = "opening"
    /\ calls' = [calls EXCEPT ![c] = "loaded"]
    /\ snap' = [snap EXCEPT ![c] = fileText]
    /\ UNCHANGED <<docVars, fileText, observed, observedDoc, compVars, toolVars>>

\* The await resumes: readDocument runs to completion and the promise resolves
OpenResolves(c) ==
    /\ calls[c] = "loaded"
    /\ calls' = [calls EXCEPT ![c] = "done"]
    /\ Install(ReadDocument(sf, snap[c]), snap[c])
    /\ UNCHANGED <<fileText, snap, observed, observedDoc, compVars, toolVars>>

\* openTextDocument rejects
OpenRejects(c) ==
    /\ calls[c] = "opening"
    /\ calls' = [calls EXCEPT ![c] = "rejected"]
    /\ sf' = ReadFileOnReject(sf)
    /\ UNCHANGED <<document, passLog, reread, prevIncludeDir,
                   fileText, snap, observed, observedDoc, compVars, toolVars>>

\* A reader calls the getters between two tasks
Observe ==
    /\ observed' = Getters(sf)
    /\ observedDoc' = document
    /\ UNCHANGED <<docVars, fileText, calls, snap, compVars, toolVars>>

NextFile ==
    \/ EditFile
    \/ \E c \in 1..NumCalls : CallReadFile(c)
    \/ \E c \in 1..NumCalls : OpenLoads(c)
    \/ \E c \in 1..NumCalls : OpenResolves(c)
    \/ \E c \in 1..NumCalls : OpenRejects(c)
    \/ Observe

SpecFile == Init /\ [][NextFile]_vars

------------------------------------------------------------------------------
(* M68kCompletionItemProvider (src/src/completion.ts): the editor document   *)
(* is a sequence of line texts, a position a line and a column, a completion *)
(* item a record.                                                           *)

\* A character of the class \w
IsWordCharacter(c) ==
    \/ \E i \in 1..Len(UpperChars) : UpperChars[i] = c \/ LowerChars[i] = c
    \/ c \in {"_", "0", "1", "2", "3", "4", "5", "6", "7", "8", "9"}

\* String.prototype.toUpperCase, character by character
ToUpperChar(c) ==
    IF \E i \in 1..Len(LowerChars) : LowerChars[i] = c
    THEN UpperChars[CHOOSE i \in 1..Len(LowerChars) : LowerChars[i] = c]
    ELSE c

ToUpperCase(s) == [i \in 1..Len(s) |-> ToUpperChar(s[i])]

\* The greatest element of hits, or d when there is none
MaxOr(hits, d) == IF hits = {} THEN d ELSE CHOOSE i \in hits : \A j \in hits : j <= i

\* s.startsWith(prefix)
StartsWith(s, prefix) == Len(prefix) <= Len(s) /\ SubSeq(s, 1, Len(prefix)) = prefix

\* text.charAt(k): the empty string outside the text
CharAt(text, k) == IF k >= 0 /\ k < Len(text) THEN <<text[k + 1]>> ELSE <<>>

\* No range (undefined)
NoRange == [start |-> -1, end |-> -1]

\* The range is defined
HasRange(r) == r.start >= 0

\* Range.contains(position) on the line of the range: both ends count
ContainsPos(r, ch) == r.start <= ch /\ ch <= r.end

\* The columns where the word around column ch starts and ends
WordStart(text, ch) ==
    MinOr({i \in 0..ch : \A k \in (i + 1)..ch : IsWordCharacter(text[k])}, ch)
WordEnd(text, ch) ==
    MaxOr({j \in ch..Len(text) : \A k \in (ch + 1)..j : IsWordCharacter(text[k])}, ch)

\* The range of the word, or undefined when no word is there
WordRange(ws, we) == IF ws = we THEN NoRange ELSE ColumnRange(ws, we)

\* document.getWordRangeAtPosition: the word that contains or touches the
\* column, or undefined
GetWordRangeAtPosition(text, ch) == WordRange(WordStart(text, ch), WordEnd(text, ch))

\* document.getText(range) within one line
GetText(text, r) == Cut(text, r.start, r.end)

RECURSIVE JoinLines(_, _)
\* The first n lines joined by line breaks
JoinLines(texts, n) ==
    IF n = 0 THEN <<>>
    ELSE IF n = 1 THEN texts[1]
    ELSE JoinLines(texts, n - 1) \o <<"\n">> \o texts[n]

\* new vscode.CompletionItem(label, kind) with the fields the provider sets
Item(label, kind, detail, range, sortText) ==
    [label |-> label, kind |-> kind, detail |-> detail, range |-> range,
     sortText |-> sortText]

\* language.getExtensions(mnemonic): the sizes of an instruction, or
\* undefined (here the empty list) for any other word
GetExtensions(mnemonic) ==
    IF mnemonic = <<"o", "r">> THEN << <<"b">>, <<"w">>, <<"l">> >> ELSE <<>>

\* Size items that are never upper-cased
SizeItemsLower(word, extensions) ==
    [k \in 1..Len(extensions) |-> Item(extensions[k], "Unit", NoValue, NoRange, NoValue)]

\* Lines 174-181: one item per extension, upper-cased when the word is
SizeItems(word, extensions) ==
    [k \in 1..Len(extensions) |->
        Item(IF word = ToUpperCase(word) THEN ToUpperCase(extensions[k]) ELSE extensions[k],
             "Unit", NoValue, NoRange, NoValue)]

\* The word provideCompletionsForSize looks up: the word before the dot, or
\* the whole text when there is none
SizeWord(texts, text, localRange) ==
    IF HasRange(localRange) THEN GetText(text, localRange) ELSE JoinLines(texts, Len(texts))

\* completion.ts lines 173-181: the items for the extensions of the word
SizeItemsOf(word) == SizeItems(word, GetExtensions(ToLowerCase(word)))

\* provideCompletionsForSize(document, position)
ProvideCompletionsForSize(texts, line, ch) ==
    SizeItemsOf(SizeWord(texts, texts[line + 1],
                         GetWordRangeAtPosition(texts[line + 1], ch - 1)))

\* The documentation loaded by DocumentationManager.load(): the registers by
\* name, then the library functions, each under its upper-cased name
RelevantKeywords ==
    << [key |-> <<"D","M","A","C","O","N">>, name |-> <<"D","M","A","C","O","N">>,
        type |-> "REGISTER", detail |-> <<"hardware $", "0", "9", "6">>],
       [key |-> <<"O","R","R","E","C","T","R","E","G","I","O","N">>,
        name |-> <<"O","r","R","e","c","t","R","e","g","i","o","n">>,
        type |-> "FUNCTION", detail |-> <<"lib graphics.OrRectRegion()">>] >>

\* completion.ts line 112, documentation.ts line 340: the prefix of library
\* function offsets
Lvo == <<"_", "L", "V", "O">>

\* DocumentationManager.findKeywordStartingWith(keyword): the keywords whose
\* key starts with the upper-cased keyword without a leading _LVO
FindKeywordStartingWith(keyword) ==
    SelectSeq(RelevantKeywords,
              LAMBDA e : StartsWith(e.key,
                                    IF StartsWith(ToUpperCase(keyword), Lvo)
                                    THEN SubSeq(ToUpperCase(keyword), 5, Len(keyword))
                                    ELSE ToUpperCase(keyword)))

\* completion.ts lines 81-82
MnemonicTypes == {"INSTRUCTION", "DIRECTIVE"}
RegisterTypes == {"REGISTER", "CPU_REGISTER"}

\* Lines 85-89: the keywords kept for the field the cursor is in
FilterByField(docKeywords, isInMnemonic) ==
    SelectSeq(docKeywords, LAMBDA k : (k.type \in MnemonicTypes) = isInMnemonic)

\* Lines 98-110: the label of a keyword in the case of the typed word
CasedLabel(k, first) ==
    IF k.type \in RegisterTypes /\ first = ToLowerCase(first) THEN ToLowerCase(k.name)
    ELSE IF k.type \in MnemonicTypes /\ first = ToUpperCase(first) THEN ToUpperCase(k.name)
    ELSE k.name

\* Lines 111-114: the optional _LVO prefix of library functions
DocLabel(k, word, isInData) ==
    IF isInData /\ StartsWith(word, Lvo)
    THEN Lvo \o CasedLabel(k, CharAt(word, 0))
    ELSE CasedLabel(k, CharAt(word, 0))

\* Lines 96-122: the items of the documentation keywords
DocItems(docKeywords, word, isInData) ==
    [q \in 1..Len(docKeywords) |->
        Item(DocLabel(docKeywords[q], word, isInData),
             IF docKeywords[q].type \in RegisterTypes THEN "Variable" ELSE "Function",
             docKeywords[q].detail, NoRange, NoValue)]

\* A Map built by set(key, value) in order: one entry per key, at the place
\* of its first set, with the value of its last set
MapOf(entries) ==
    [q \in 1..Len(entries) |->
        [key |-> entries[q].key,
         value |-> entries[MaxOr({x \in 1..Len(entries) : entries[x].key = entries[q].key}, q)].value,
         first |-> \A x \in 1..(q - 1) : entries[x].key # entries[q].key]]

\* Map.entries(): the entries in insertion order
MapEntries(entries) == SelectSeq(MapOf(entries), LAMBDA e : e.first)

\* The symbols keyed by label
SymbolMap(symbols) ==
    MapEntries([q \in 1..Len(symbols) |-> [key |-> symbols[q].label, value |-> symbols[q]]])

\* The entries whose key starts with the word
StartingWith(entries, word) == SelectSeq(entries, LAMBDA e : StartsWith(e.key, word))

\* definitionHandler.findLabelStartingWith / findMacroStartingWith /
\* findVariableStartingWith over the symbol file of the document
FindLabelStartingWith(f, word) == StartingWith(SymbolMap(f.labels), word)
FindMacroStartingWith(f, word) == StartingWith(SymbolMap(f.macros), word)
FindVariableStartingWith(f, word) == StartingWith(SymbolMap(f.variables), word)

\* The name of the file of the document
FileName == <<"f", ".", "s">>

\* The entries whose key is not yet a completion label
NotYet(entries, completionLabels) ==
    SelectSeq(entries, LAMBDA e : e.key \notin completionLabels)

\* Lines 128-137: one item per macro that is not yet a completion label
MacroItems(macros) ==
    [q \in 1..Len(macros) |-> Item(macros[q].key, "Function", <<"macro">>, NoRange, NoValue)]

\* Label items that keep the prefix of the lookup key
LabelItemsWithPrefix(labels, prefixLen, wordRange) ==
    [q \in 1..Len(labels) |->
        Item(labels[q].key, "Function",
             <<"label ", FileName, ":", labels[q].value.range.sl>>, wordRange, NoValue)]

\* Lines 141-152: one item per label, without the first prefixLen characters
LabelItems(labels, prefixLen, wordRange) ==
    [q \in 1..Len(labels) |->
        Item(SubSeq(labels[q].key, prefixLen + 1, Len(labels[q].key)), "Function",
             <<"label ", FileName, ":", labels[q].value.range.sl>>, wordRange, NoValue)]

\* Lines 155-163: one item per variable, with its value as detail
VariableItems(variables, wordRange) ==
    [q \in 1..Len(variables) |->
        Item(variables[q].key, "Variable", variables[q].value.value, wordRange, NoValue)]

\* Lines 138-164: labels, then the variables that are neither a keyword nor
\* a label offered before
LabelAndVariableItems(labels, variables, docLabels, prefixLen, wordRange) ==
    LabelItems(NotYet(labels, docLabels), prefixLen, wordRange)
        \o VariableItems(NotYet(variables, docLabels \cup {labels[q].key : q \in 1..Len(labels)}), wordRange)

\* Symbol completions that do not look at the field of the cursor
SymbolItemsAnyField(f, word, isInMnemonic, docLabels, prefixLen, wordRange) ==
    MacroItems(NotYet(FindMacroStartingWith(f, word), docLabels))
        \o LabelAndVariableItems(FindLabelStartingWith(f, word),
                                 FindVariableStartingWith(f, word),
                                 docLabels, prefixLen, wordRange)

\* Lines 124-164: the symbol completions for the field of the cursor
SymbolItems(f, word, isInMnemonic, docLabels, prefixLen, wordRange) ==
    IF isInMnemonic
    THEN MacroItems(NotYet(FindMacroStartingWith(f, word), docLabels))
    ELSE LabelAndVariableItems(FindLabelStartingWith(f, word),
                               FindVariableStartingWith(f, word),
                               docLabels, prefixLen, wordRange)

------------------------------------------------------------------------------
(* FileProxy and the completion of include paths.  A file is the list of    *)
(* the names on its path from the root; the disk is the set of its entries, *)
(* each a path with the kind "dir" or "file"; the root is a directory.      *)

\* FileProxy.normalize: backslashes become slashes
NormalizePath(s) == [i \in 1..Len(s) |-> IF s[i] = "\\" THEN "/" ELSE s[i]]

RECURSIVE SplitPath(_)
\* The names of a path text cut at position p of its first slash
SplitAt(s, p) ==
    IF p < 0 THEN <<s>>
    ELSE (IF p = 0 THEN <<>> ELSE <<SubSeq(s, 1, p)>>) \o SplitPath(SubSeq(s, p + 2, Len(s)))

\* The names of a path text
SplitPath(s) == IF Len(s) = 0 THEN <<>> ELSE SplitAt(s, IndexOf(s, <<"/">>))

\* new FileProxy(Uri.file(path)): the path taken from the root
FileOf(path) == SplitPath(NormalizePath(path))

\* parent.getRelativeFile(path)
GetRelativeFile(parent, path) == parent \o SplitPath(NormalizePath(path))

\* file.getParent() and file.getName()
GetParent(file) == SubSeq(file, 1, Len(file) - 1)
GetName(file) == file[Len(file)]

Exists(disk, file) == file = <<>> \/ \E e \in disk : e.path = file
IsDirectory(disk, file) == file = <<>> \/ \E e \in disk : e.path = file /\ e.kind = "dir"

\* await f.exists() && await f.isDirectory()
IsExistingDir(disk, file) == Exists(disk, file) /\ IsDirectory(disk, file)

\* The order in which a directory lists its entries
ListingOrder ==
    << <<".", "h">>, <<"a">>, <<"b">>, <<"f", ".", "s">>, <<"i">>, <<"s">>, <<"w">> >>

\* dir.listFiles(): the entries of the directory (none when it is not one)
ListFiles(disk, dir) ==
    IF IsExistingDir(disk, dir)
    THEN SelectSeq([q \in 1..Len(ListingOrder) |-> dir \o <<ListingOrder[q]>>],
                   LAMBDA file : Exists(disk, file))
    ELSE <<>>

\* s.lastIndexOf(c), 0-based, or -1
LastIndexOf(s, c) == MaxOr({i \in 0..(Len(s) - 1) : s[i + 1] = c}, -1)

\* s.substr(start, length)
Substr(s, start, length) ==
    IF length <= 0 THEN <<>>
    ELSE SubSeq(s, start + 1, IF start + length < Len(s) THEN start + length ELSE Len(s))

\* The result of the search for the folder to list: the folder and the filter
\* ("" stands for no filter, which the test !filter treats alike)
Listing(parent, filter) == [parent |-> parent, filter |-> filter]

\* Lines 228-242: the typed path may be a folder path followed by a file name
ResolveWithFileName(disk, parent, typedPath, normalized, pos) ==
    IF pos > 0 /\ IsExistingDir(disk, GetRelativeFile(parent, Substr(normalized, 0, pos)))
    THEN Listing(GetRelativeFile(parent, Substr(normalized, 0, pos)),
                 SubSeq(normalized, pos + 2, Len(normalized)))
    ELSE Listing(parent, typedPath)

\* Lines 216-245: the folder and the filter for a typed path
ResolveTyped(disk, parent, typedPath, checkAbsolute) ==
    IF checkAbsolute /\ IsExistingDir(disk, FileOf(typedPath))
    THEN Listing(FileOf(typedPath), <<>>)
    ELSE IF IsExistingDir(disk, GetRelativeFile(parent, typedPath))
    THEN Listing(GetRelativeFile(parent, typedPath), <<>>)
    ELSE ResolveWithFileName(disk, parent, typedPath, NormalizePath(typedPath),
                             LastIndexOf(NormalizePath(typedPath), "/"))

\* Lines 209-214: the part of the data typed so far, up to the cursor
TypedLength(data, ch, dataStart) ==
    IF StartsWith(data, <<"\"">>) THEN ch - dataStart - 1 ELSE ch - dataStart

\* completion.ts line 217: asmLine.data.substr(start, length)
TypedPath(data, ch, dataStart) ==
    Substr(data, IF StartsWith(data, <<"\"">>) THEN 1 ELSE 0, TypedLength(data, ch, dataStart))

\* Lines 249-259: the item of a listed entry
FileItem(disk, file) ==
    IF IsDirectory(disk, file)
    THEN Item(GetName(file) \o <<"/">>, "Folder", NoValue, NoRange,
              <<"A">> \o GetName(file) \o <<"/">>)
    ELSE Item(GetName(file), "File", NoValue, NoRange, <<"B">> \o GetName(file))

\* Lines 246-261: the entries of the folder that are not the document, match
\* the filter and are not hidden
ListedItems(disk, documentFile, listing) ==
    LET kept == SelectSeq(ListFiles(disk, listing.parent),
                          LAMBDA file : /\ file # documentFile
                                        /\ StartsWith(GetName(file), listing.filter)
                                        /\ ~StartsWith(GetName(file), <<".">>))
    IN [q \in 1..Len(kept) |-> FileItem(disk, kept[q])]

\* Lines 209-245: the folder to list and the filter of one listing
ListingOf(disk, data, dataStart, parent, ch, checkAbsolute) ==
    IF TypedLength(data, ch, dataStart) > 0
    THEN ResolveTyped(disk, parent, TypedPath(data, ch, dataStart), checkAbsolute)
    ELSE Listing(parent, <<>>)

\* provideCompletionsForFile(asmLine, documentFile, parent, position, checkAbsolute)
ProvideCompletionsForFile(disk, data, dataStart, documentFile, parent, ch, checkAbsolute) ==
    ListedItems(disk, documentFile,
                ListingOf(disk, data, dataStart, parent, ch, checkAbsolute))

\* All the items, those with the label of another one too
KeepAll(completions) == completions

\* cleanAndReorder: one item per label, the last one, at the first one's place
CleanAndReorder(completions) ==
    LET kept == MapEntries([q \in 1..Len(completions) |->
                               [key |-> completions[q].label, value |-> completions[q]]])
    IN [q \in 1..Len(kept) |-> kept[q].value]

\* No include directory (undefined)
NoDir == [found |-> FALSE, file |-> <<>>]

\* An include directory
FoundDir(file) == [found |-> TRUE, file |-> file]

\* An include directory that is taken although it is not a directory
ResolveIncludeDirUnchecked(disk, documentFile, includeDirInSource) ==
    IF Len(includeDirInSource) = 0 THEN NoDir
    ELSE IF IsExistingDir(disk, FileOf(includeDirInSource))
    THEN FoundDir(FileOf(includeDirInSource))
    ELSE FoundDir(GetRelativeFile(GetParent(documentFile), includeDirInSource))

\* Lines 189-200: the include directory as an absolute path, else relative
\* to the folder of the document
ResolveIncludeDir(disk, documentFile, includeDirInSource) ==
    IF Len(includeDirInSource) = 0 THEN NoDir
    ELSE IF IsExistingDir(disk, FileOf(includeDirInSource))
    THEN FoundDir(FileOf(includeDirInSource))
    ELSE IF IsExistingDir(disk, GetRelativeFile(GetParent(documentFile), includeDirInSource))
    THEN FoundDir(GetRelativeFile(GetParent(documentFile), includeDirInSource))
    ELSE NoDir

\* definitionHandler.getIncludeDir(uri): the includeDir of the symbol file
GetIncludeDir(f) == f.includeDir

\* retrieveIncludeDir(documentFile)
RetrieveIncludeDir(disk, documentFile, f) ==
    IF Exists(disk, documentFile)
    THEN ResolveIncludeDir(disk, documentFile, GetIncludeDir(f))
    ELSE NoDir

\* Lines 278-282: the entries of the include directory, then those of the
\* folder of the document
IncludeCompletions(disk, data, dataStart, documentFile, ch, includeDir) ==
    (IF includeDir.found
     THEN ProvideCompletionsForFile(disk, data, dataStart, documentFile,
                                    includeDir.file, ch, FALSE)
     ELSE <<>>)
        \o ProvideCompletionsForFile(disk, data, dataStart, documentFile,
                                     GetParent(documentFile), ch, TRUE)

\* provideCompletionForIncludes(asmLine, document, position)
ProvideCompletionForIncludes(disk, data, dataStart, documentFile, ch, f) ==
    CleanAndReorder(IncludeCompletions(disk, data, dataStart, documentFile, ch,
                                       RetrieveIncludeDir(disk, documentFile, f)))

------------------------------------------------------------------------------
(* provideCompletionItems(document, position, token) *)

\* The file of the document open in the editor
DocumentFile == << <<"w">>, <<"f", ".", "s">> >>

\* Locals whose data test looks at the end of the data range only
LineLocalsLoose(text, parts, wordRange, ch) ==
    [text |-> text, parts |-> parts, ch |-> ch, wordRange |-> wordRange,
     isInComment |-> ContainsPos(PartCommentRange(parts), ch),
     isInMnemonic |-> ContainsPos(PartMnemonicRange(parts), ch),
     isInData |-> ch <= PartDataRange(parts).end,
     isInSize |-> /\ ~HasRange(wordRange)
                  /\ ch > 0
                  /\ CharAt(text, ch - 1) = <<".">>
                  /\ ContainsPos(PartInstructionRange(parts), ch - 1)]

\* Lines 24-37: the word at the cursor and the part of the line it is in
LineLocals(text, parts, wordRange, ch) ==
    [text |-> text, parts |-> parts, ch |-> ch, wordRange |-> wordRange,
     isInComment |-> ContainsPos(PartCommentRange(parts), ch),
     isInMnemonic |-> ContainsPos(PartMnemonicRange(parts), ch),
     isInData |-> ContainsPos(PartDataRange(parts), ch),
     isInSize |-> /\ ~HasRange(wordRange)
                  /\ ch > 0
                  /\ CharAt(text, ch - 1) = <<".">>
                  /\ ContainsPos(PartInstructionRange(parts), ch - 1)]

\* completion.ts lines 24-26: the line of the position, parsed, and the word
\* range at the position
Locals(texts, line, ch) ==
    LineLocals(texts[line + 1], ParseLine(texts[line + 1]),
               GetWordRangeAtPosition(texts[line + 1], ch), ch)

\* Lines 39-53: which completions the request gets
BranchOf(loc) ==
    IF loc.isInSize THEN "size"
    ELSE IF loc.isInComment \/ ~HasRange(loc.wordRange) THEN "none"
    ELSE IF /\ ~loc.isInMnemonic
            /\ ToLowerCase(FieldsOf(loc.parts).instruction) = <<"i","n","c","l","u","d","e">>
    THEN "include"
    ELSE "symbols"

\* Line 58: the character before the word is a dot
IsLocalWord(loc) == CharAt(loc.text, loc.wordRange.start - 1) = <<".">>

\* Lines 61-64: the range of the word, with its leading dot
ExtendedRange(loc) ==
    IF IsLocalWord(loc) THEN ColumnRange(loc.wordRange.start - 1, loc.wordRange.end)
    ELSE loc.wordRange

\* text.match(/^(\w+)\b/): the word at column 0, "" when there is none
LeadingWord(text) == Cut(text, 0, WordEnd(text, 0))

\* Lines 66-72: the word at column 0 of the nearest line, from the line of
\* the cursor upwards, that starts with one ("" when there is none)
PreviousGlobalLabel(texts, line) ==
    LeadingWord(texts[MaxOr({n \in 1..(line + 1) : Len(LeadingWord(texts[n])) > 0},
                             line + 1)])

LabelPrefix(texts, line, loc) ==
    IF IsLocalWord(loc) THEN PreviousGlobalLabel(texts, line) ELSE <<>>

\* Line 75
WordOf(loc, labelPrefix) == labelPrefix \o GetText(loc.text, ExtendedRange(loc))

\* Lines 96-166: the keyword items, then the symbol items
WithDocItems(docItems, f, loc, labelPrefix, word) ==
    docItems \o SymbolItems(f, word, loc.isInMnemonic, {docItems[q].label : q \in 1..Len(docItems)},
                            Len(labelPrefix), ExtendedRange(loc))

\* Lines 77-166 for the word of the request
CompletionsForWord(f, loc, labelPrefix, word) ==
    WithDocItems(DocItems(FilterByField(FindKeywordStartingWith(word), loc.isInMnemonic),
                          word, loc.isInData),
                 f, loc, labelPrefix, word)

\* Lines 39-166 by the branch taken
CompletionsOf(branch, texts, line, f, disk, loc) ==
    CASE branch = "size" -> ProvideCompletionsForSize(texts, line, loc.ch)
      [] branch = "none" -> <<>>
      [] branch = "include" ->
            ProvideCompletionForIncludes(disk, FieldsOf(loc.parts).data, loc.parts.dataStart,
                                         DocumentFile, loc.ch, f)
      [] OTHER -> CompletionsForWord(f, loc, LabelPrefix(texts, line, loc),
                                     WordOf(loc, LabelPrefix(texts, line, loc)))

\* provideCompletionItems(document, position, token): the list it resolves to
ProvideCompletionItems(texts, line, ch, f, disk) ==
    CompletionsOf(BranchOf(Locals(texts, line, ch)), texts, line, f, disk,
                  Locals(texts, line, ch))

\* No request yet
NoProbe ==
    [branch |-> "idle", isInComment |-> FALSE, isInMnemonic |-> FALSE,
     isInData |-> FALSE, isInSize |-> FALSE, wordRange |-> NoRange,
     labelPrefix |-> <<>>, word |-> <<>>, includeDir |-> NoDir]

\* The locals of a request that took the given branch
ProbeFor(branch, texts, line, f, disk, loc) ==
    [branch |-> branch, isInComment |-> loc.isInComment,
     isInMnemonic |-> loc.isInMnemonic, isInData |-> loc.isInData,
     isInSize |-> loc.isInSize, wordRange |-> loc.wordRange,
     labelPrefix |-> IF branch = "symbols" THEN LabelPrefix(texts, line, loc) ELSE <<>>,
     word |-> IF branch = "symbols" THEN WordOf(loc, LabelPrefix(texts, line, loc)) ELSE <<>>,
     includeDir |-> IF branch = "include" THEN RetrieveIncludeDir(disk, DocumentFile, f)
                    ELSE NoDir]

\* The locals of the request at a position
ProbeOf(texts, line, ch, f, disk) ==
    ProbeFor(BranchOf(Locals(texts, line, ch)), texts, line, f, disk,
             Locals(texts, line, ch))

\* The lines readDocument gets from the texts of the document
ParsedDocument(texts) == [n \in 1..Len(texts) |-> FieldsOf(ParseLine(texts[n]))]

------------------------------------------------------------------------------
(* The editor: the document changes, the symbol file is read again, and     *)
(* returned are requested at a position of the document                  *)

\* The document became newTexts and was read again; the last request is gone
ChangeDocument(newTexts) ==
    /\ lineTexts' = newTexts
    /\ Install(ReadDocument(sf, ParsedDocument(newTexts)), ParsedDocument(newTexts))
    /\ cursor' = [line |-> 0, character |-> 0]
    /\ returned' = <<>>
    /\ probe' = NoProbe
    /\ UNCHANGED <<fileVars, toolVars, fsEntries>>

\* A completion request at line and column ch of the document
Complete(line, ch) ==
    /\ cursor' = [line |-> line, character |-> ch]
    /\ returned' = ProvideCompletionItems(lineTexts, line, ch, sf, fsEntries)
    /\ probe' = ProbeOf(lineTexts, line, ch, sf, fsEntries)
    /\ UNCHANGED <<docVars, fileVars, toolVars, lineTexts, fsEntries>>

\* A request anywhere in the document
CompleteAnywhere ==
    \E line \in 0..(Len(lineTexts) - 1) : \E ch \in 0..Len(lineTexts[line + 1]) : Complete(line, ch)

\* What is typed into a line
Tokens == { <<"o", "r">>, <<"O", "R">>, <<" ">>, <<".">>, <<";">> }

\* The number of tokens a text was typed with
TokenCount(text) == Cardinality({k \in 1..Len(text) : text[k] \notin {"r", "R"}})

\* A document of one empty line is opened
OpenEmptyLine ==
    /\ Len(lineTexts) = 0
    /\ ChangeDocument(<< <<>> >>)

TypeToken ==
    /\ Len(lineTexts) = 1
    /\ \E token \in Tokens :
          /\ TokenCount(lineTexts[1]) < MaxTokens
          /\ ChangeDocument(<< lineTexts[1] \o token >>)

\* The lines typed into a document of several lines: two global labels, a
\* local label, a branch to a local label being typed, and a macro definition
CompLines ==
    { <<"F","O","O">>, <<"B","A","Z",":">>, <<".","b","a","r">>,
      <<" ","b","r","a"," ",".","b">>, <<"M"," ","m","a","c","r","o">> }

\* A line was typed at the end of the document
TypeLine ==
    /\ Len(lineTexts) < MaxCompLines
    /\ \E text \in CompLines : ChangeDocument(Append(lineTexts, text))

NextComplete == TypeLine \/ CompleteAnywhere

SpecComplete == Init /\ [][NextComplete]_vars

\* The lines of a document with symbols of every kind that start with DMA:
\* a label named like the register DMACON, a label DMAX before the mnemonic
\* and the operand DMA, a variable DMAX and a macro DMA
FieldLines ==
    { <<"D","M","A","C","O","N">>, <<"D","M","A","X"," ","D","M","A"," ","D","M","A">>,
      <<"D","M","A","X"," ","="," ","1">>,
      <<"D","M","A"," ","m","a","c","r","o">> }

\* A line was typed at the end of the document
TypeFieldLine ==
    /\ Len(lineTexts) < MaxFieldLines
    /\ \E text \in FieldLines : ChangeDocument(Append(lineTexts, text))

NextField == TypeFieldLine \/ CompleteAnywhere

SpecField == Init /\ [][NextField]_vars

\* The disks: the folder /w of the document with a file a, a hidden file .h
\* and a folder s holding a file b; the document /w/f.s saved or not; /i
\* absent, a folder with the files a and b, or a file; /w/i absent, a folder
\* with a file b, or a file
Disks ==
    LET base == { [path |-> <<<<"w">>>>, kind |-> "dir"],
                  [path |-> <<<<"w">>, <<"a">>>>, kind |-> "file"],
                  [path |-> <<<<"w">>, <<".","h">>>>, kind |-> "file"],
                  [path |-> <<<<"w">>, <<"s">>>>, kind |-> "dir"],
                  [path |-> <<<<"w">>, <<"s">>, <<"b">>>>, kind |-> "file"] }
        saved == { [path |-> <<<<"w">>, <<"f",".","s">>>>, kind |-> "file"] }
        rootI == { {},
                   { [path |-> <<<<"i">>>>, kind |-> "dir"],
                     [path |-> <<<<"i">>, <<"a">>>>, kind |-> "file"],
                     [path |-> <<<<"i">>, <<"b">>>>, kind |-> "file"] },
                   { [path |-> <<<<"i">>>>, kind |-> "file"] } }
        localI == { {},
                    { [path |-> <<<<"w">>, <<"i">>>>, kind |-> "dir"],
                      [path |-> <<<<"w">>, <<"i">>, <<"b">>>>, kind |-> "file"] },
                    { [path |-> <<<<"w">>, <<"i">>>>, kind |-> "file"] } }
    IN { base \cup d \cup r \cup l : d \in {{}, saved}, r \in rootI, l \in localI }

\* The documents: an include line being typed, alone or after an incdir line
IncludeDocuments ==
    LET incdir == <<" ","i","n","c","d","i","r"," ","\"","i","\"">>
        includes == { <<" ","i","n","c","l","u","d","e"," ","\"","a">>,
                      <<" ","i","n","c","l","u","d","e"," ","\"","s","/","b">>,
                      <<" ","i","n","c","l","u","d","e"," ","i">> }
    IN { <<t>> : t \in includes } \cup { <<incdir, t>> : t \in includes }

\* The document was replaced by another one
EditInclude == \E doc \in IncludeDocuments : ChangeDocument(doc)

\* Files and folders were created or removed; the last request is gone
DiskChange ==
    /\ \E d \in Disks : fsEntries' = d
    /\ cursor' = [line |-> 0, character |-> 0]
    /\ returned' = <<>>
    /\ probe' = NoProbe
    /\ UNCHANGED <<docVars, fileVars, toolVars, lineTexts>>

NextInclude == EditInclude \/ DiskChange \/ CompleteAnywhere

SpecInclude == Init /\ [][NextInclude]_vars

NextLine == OpenEmptyLine \/ TypeToken \/ CompleteAnywhere

SpecLine == Init /\ [][NextLine]_vars

------------------------------------------------------------------------------
(* DocumentationManager: the registers and library functions loaded from    *)
(* the docs folder, and get(keyword).  A Map is the sequence of its entries *)
(* in insertion order.                                                      *)

\* null
Null == <<"<null>">>

\* Map.has(key)
MapHas(entries, key) == \E q \in 1..Len(entries) : entries[q].key = key

\* Map.set(key, value)
MapSet(entries, key, value) ==
    IF MapHas(entries, key)
    THEN [q \in 1..Len(entries) |->
             IF entries[q].key = key THEN [key |-> key, value |-> value] ELSE entries[q]]
    ELSE Append(entries, [key |-> key, value |-> value])

\* Map.get(key) of a key the map has
MapGet(entries, key) ==
    entries[CHOOSE q \in 1..Len(entries) : entries[q].key = key].value

\* s.endsWith(suffix)
EndsWith(s, suffix) ==
    Len(suffix) <= Len(s) /\ SubSeq(s, Len(s) - Len(suffix) + 1, Len(s)) = suffix

\* s.replace(sub, "") for the first occurrence of sub at 0-based position p
RemoveSub(s, sub, p) ==
    IF p < 0 THEN s ELSE SubSeq(s, 1, p) \o SubSeq(s, p + Len(sub) + 1, Len(s))

\* filename.replace(".md", "")
WithoutMd(filename) ==
    RemoveSub(filename, <<".", "m", "d">>, IndexOf(filename, <<".", "m", "d">>))

RECURSIVE SplitOn(_, _)
\* s.split(c) cut at the 0-based position p of the first c
SplitFrom(s, c, p) ==
    IF p < 0 THEN <<s>>
    ELSE <<SubSeq(s, 1, p)>> \o SplitOn(SubSeq(s, p + 2, Len(s)), c)

\* s.split(c)
SplitOn(s, c) == SplitFrom(s, c, IndexOf(s, <<c>>))

\* new DocumentationRegister(address, name, filePath), lines 142-151
DocumentationRegister(address, name) ==
    [type |-> "REGISTER", address |-> address, name |-> name, libraryName |-> <<>>]

\* new DocumentationLibraryFunction(libraryName, name, "", fileProxy), lines 241-249
DocumentationLibraryFunction(libraryName, name) ==
    [type |-> "FUNCTION", address |-> <<>>, name |-> name, libraryName |-> libraryName]

\* The description of an element once loaded (lines 156-163, 214-220): the
\* text of its file, which stands here as the kind, folder and name of it
Description(el) ==
    IF el.type = "REGISTER"
    THEN <<"hardware">> \o el.address \o <<"_">> \o el.name
    ELSE <<"libs">> \o el.libraryName \o <<"/">> \o el.name

\* Lines 80-87: the register of a file named address_name
AddRegister(m, hr) ==
    [m EXCEPT !.registersByAddress = MapSet(@, hr.address, hr),
              !.registersByName = MapSet(@, hr.name, hr)]

\* DocumentationRegistersManager.loadFile of the elements of the file name
LoadRegisterElms(m, elms) ==
    IF Len(elms) = 2
    THEN AddRegister(m, DocumentationRegister(ToUpperCase(elms[1]), ToUpperCase(elms[2])))
    ELSE m

\* Lines 48-53: one file of the hardware folder
LoadHardwareFile(m, filename) ==
    IF EndsWith(filename, <<".", "m", "d">>)
    THEN LoadRegisterElms(m, SplitOn(WithoutMd(filename), "_"))
    ELSE m

\* Lines 203-208: one file of a folder of libs
LoadLibraryFile(m, dirName, childFileName) ==
    IF ~StartsWith(dirName, <<".">>) /\ EndsWith(childFileName, <<".", "m", "d">>)
    THEN [m EXCEPT !.functionsByName =
             MapSet(@, ToUpperCase(WithoutMd(childFileName)),
                    DocumentationLibraryFunction(dirName, WithoutMd(childFileName)))]
    ELSE m

\* Lines 315-318: the keyword up to its first parenthesis at position pos
CutAtParenthesis(keyword, pos) == IF pos > 0 THEN SubSeq(keyword, 1, pos) ELSE keyword

\* Lines 319-321
StripLvo(keyword) ==
    IF StartsWith(keyword, Lvo) THEN SubSeq(keyword, 5, Len(keyword)) ELSE keyword

\* Lines 314-321: the name under which the function is looked up
FunctionKeyword(keyword) == StripLvo(CutAtParenthesis(keyword, IndexOf(keyword, <<"(">>)))

\* undefined
NoElement == [type |-> "UNKNOWN", address |-> <<>>, name |-> <<>>, libraryName |-> <<>>]

\* A lookup that tries the name of a register before its address
FindElementNameFirst(m, keyword) ==
    IF Len(keyword) = 0 THEN NoElement
    ELSE IF MapHas(m.registersByName, keyword) THEN MapGet(m.registersByName, keyword)
    ELSE IF MapHas(m.registersByAddress, keyword) THEN MapGet(m.registersByAddress, keyword)
    ELSE IF MapHas(m.functionsByName, FunctionKeyword(keyword))
    THEN MapGet(m.functionsByName, FunctionKeyword(keyword))
    ELSE NoElement

\* Lines 308-325: the element found for the keyword
FindElement(m, keyword) ==
    IF Len(keyword) = 0 THEN NoElement
    ELSE IF MapHas(m.registersByAddress, keyword) THEN MapGet(m.registersByAddress, keyword)
    ELSE IF MapHas(m.registersByName, keyword) THEN MapGet(m.registersByName, keyword)
    ELSE IF MapHas(m.functionsByName, FunctionKeyword(keyword))
    THEN MapGet(m.functionsByName, FunctionKeyword(keyword))
    ELSE NoElement

\* Lines 326-330
DescriptionOrNull(value) == IF value = NoElement THEN Null ELSE Description(value)

\* DocumentationManager.get(keyword)
Get(m, keyword) == DescriptionOrNull(FindElement(m, keyword))

\* The files of docs/hardware: registers b_c and c_d, a name that is not
\* address_name, and a file that is not markdown
HardwareFiles ==
    { <<"b","_","c",".","m","d">>, <<"c","_","d",".","m","d">>,
      <<"c",".","m","d">>, <<"d","_","e",".","t","x","t">> }

\* The files of docs/libs: the functions c and Do of exec, and a file of a
\* hidden folder
LibraryFiles ==
    { [dir |-> <<"e","x","e","c">>, file |-> <<"c",".","m","d">>],
      [dir |-> <<"e","x","e","c">>, file |-> <<"D","o",".","m","d">>],
      [dir |-> <<".","x">>, file |-> <<"e",".","m","d">>] }

\* The keywords asked for
Keywords ==
    { <<>>, <<"B">>, <<"C">>, <<"c">>, <<"D">>, <<"E">>,
      <<"D","o">>, <<"D","O">>, <<"D","O","(","a",")">>, <<"_","L","V","O","D","O">>,
      <<"_","L","V","O","C","(">>, <<"(","C">> }

\* No get since the last file was loaded
NotAsked == [asked |-> FALSE, keyword |-> <<>>, value |-> Null]

\* load() read one more file of docs/hardware; the last answer is gone
LoadHardware ==
    /\ manager.files < MaxDocFiles
    /\ \E filename \in HardwareFiles :
          manager' = [LoadHardwareFile(manager, filename) EXCEPT !.files = @ + 1]
    /\ got' = NotAsked
    /\ UNCHANGED <<docVars, fileVars, compVars, compared, zip, downloads>>

\* load() read one more file of a folder of docs/libs; the last answer is gone
LoadLibrary ==
    /\ manager.files < MaxDocFiles
    /\ \E f \in LibraryFiles :
          manager' = [LoadLibraryFile(manager, f.dir, f.file) EXCEPT !.files = @ + 1]
    /\ got' = NotAsked
    /\ UNCHANGED <<docVars, fileVars, compVars, compared, zip, downloads>>

\* get(keyword) was called
AskDocumentation ==
    /\ \E keyword \in Keywords :
          got' = [asked |-> TRUE, keyword |-> keyword, value |-> Get(manager, keyword)]
    /\ UNCHANGED <<docVars, fileVars, compVars, manager, compared, zip, downloads>>

NextDoc == LoadHardware \/ LoadLibrary \/ AskDocumentation

SpecDoc == Init /\ [][NextDoc]_vars

------------------------------------------------------------------------------
(* Version (src/unnamed/part_001): major.minor.increment, each the         *)
(* parseInt of its text.  A field is a natural number or NaN.               *)

\* NaN, the result of parseInt for a text that starts with no digit
NaN == 0 - 1

\* The comparisons of JavaScript numbers: every comparison with NaN is false
Greater(x, y) == x # NaN /\ y # NaN /\ x > y
Less(x, y) == x # NaN /\ y # NaN /\ x < y
StrictEquals(x, y) == x # NaN /\ y # NaN /\ x = y

DecimalDigits == <<"0", "1", "2", "3", "4", "5", "6", "7", "8", "9">>

IsDigit(c) == \E d \in 1..10 : DecimalDigits[d] = c

DigitValue(c) == (CHOOSE d \in 1..10 : DecimalDigits[d] = c) - 1

RECURSIVE ParseDigits(_, _)
\* The number of the digits at the start of s, after the digits read as acc
ParseDigits(s, acc) ==
    IF Len(s) = 0 \/ ~IsDigit(s[1]) THEN acc
    ELSE ParseDigits(Tail(s), acc * 10 + DigitValue(s[1]))

\* parseInt(s) for a text of digits, dots and letters
ParseInt(s) == IF Len(s) = 0 \/ ~IsDigit(s[1]) THEN NaN ELSE ParseDigits(s, 0)

\* Lines 35-49: the version of the elements elms of the text
VersionOfElms(version, elms) ==
    [major |-> IF Len(version) > 0 THEN ParseInt(elms[1]) ELSE 0,
     minor |-> IF Len(version) > 0 /\ Len(elms) > 1 THEN ParseInt(elms[2]) ELSE 0,
     increment |-> IF Len(version) > 0 /\ Len(elms) > 2 THEN ParseInt(elms[3]) ELSE 0]

\* new Version(version)
NewVersion(version) == VersionOfElms(version, SplitOn(version, "."))

\* this.compare(other), lines 56-76
Compare(this, other) ==
    IF Greater(other.major, this.major) THEN 1
    ELSE IF Less(other.major, this.major) THEN -1
    ELSE IF Greater(other.minor, this.minor) THEN 1
    ELSE IF Less(other.minor, this.minor) THEN -1
    ELSE IF Greater(other.increment, this.increment) THEN 1
    ELSE IF Less(other.increment, this.increment) THEN -1
    ELSE 0

\* this.isCompatible(other), lines 83-85
IsCompatible(this, other) ==
    StrictEquals(this.major, other.major) /\ StrictEquals(this.minor, other.minor)

\* The texts versions are made of
VersionTexts ==
    { <<>>, <<"1",".","5">>, <<"1",".","5",".","0">>, <<"1",".","6">>, <<".","6">>,
      <<"0",".","7">>, <<"1",".",".","2">>, <<"1",".","5",".","x">>, <<"2",".","0",".","1">> }

\* The results of the comparisons of three versions
Comparisons(a, b, c) ==
    [called |-> TRUE, a |-> a, b |-> b, c |-> c,
     ab |-> Compare(a, b), ba |-> Compare(b, a), bc |-> Compare(b, c),
     ac |-> Compare(a, c), compatible |-> IsCompatible(a, b)]

\* Three versions were built and compared
CompareVersions ==
    /\ \E ta, tb, tc \in VersionTexts :
          compared' = Comparisons(NewVersion(ta), NewVersion(tb), NewVersion(tc))
    /\ UNCHANGED <<docVars, fileVars, compVars, manager, got, zip, downloads>>

NextVersion == CompareVersions

SpecVersion == Init /\ [][NextVersion]_vars

------------------------------------------------------------------------------
(* DownloadManager (src/unnamed/part_001): getZipURL and downloadProject.   *)
(* GitHub is the list of the names of its tags, the downloads folder the    *)
(* list of its item names.                                                  *)

\* Lines 185-197: the tag info of a tag name with the elements elms
TagInfo(name, elms) ==
    [name |-> name, zipball_url |-> <<"zipball/">> \o name,
     version |-> NewVersion(elms[1]),
     extension |-> IF Len(elms) > 1 THEN elms[2] ELSE NoValue]

\* listTagsFromGitHub() for the tag names GitHub answers with
ListTagsFromGitHub(names) ==
    [q \in 1..Len(names) |-> TagInfo(names[q], SplitOn(names[q], "-"))]

\* getOsName() and getBranchName() by process.platform
GetOsName(platform) ==
    CASE platform = "win32" -> <<"w","i","n","d","o","w","s">>
      [] platform = "darwin" -> <<"o","s","x">>
      [] OTHER -> <<"d","e","b","i","a","n">>

GetBranchName(platform) ==
    CASE platform = "win32" -> <<"w","i","n","d","o","w","s","_","x","6","4">>
      [] platform = "darwin" -> <<"o","s","x">>
      [] OTHER -> <<"d","e","b","i","a","n","_","x","6","4">>

\* !tag.extension: undefined or the empty string
NoExtension(tag) == tag.extension = NoValue \/ Len(tag.extension) = 0

\* Lines 243-244: the k-th tag becomes the best one (best is the index of
\* the best one so far, 0 for none)
BecomesBest(tagInfos, k, best, version, osName) ==
    /\ NoExtension(tagInfos[k]) \/ tagInfos[k].extension = osName
    /\ IsCompatible(version, tagInfos[k].version)
    /\ best = 0 \/ Compare(tagInfos[best].version, tagInfos[k].version) > 0

RECURSIVE BestTagInfo(_, _, _, _, _)
\* Lines 241-248: the loop over the tags from the k-th on
BestTagInfo(tagInfos, k, best, version, osName) ==
    IF k > Len(tagInfos) THEN best
    ELSE BestTagInfo(tagInfos, k + 1,
                     IF BecomesBest(tagInfos, k, best, version, osName) THEN k ELSE best,
                     version, osName)

\* The URL of the branches of the project
BranchURL == <<"heads">>

\* Lines 249-258: the version and URL of the best tag, or of the branch
ZipOf(version, tagInfos, best, platform) ==
    IF best > 0
    THEN [version |-> tagInfos[best].version, url |-> tagInfos[best].zipball_url]
    ELSE [version |-> version,
          url |-> BranchURL \o <<"/">> \o GetBranchName(platform) \o <<".", "z", "i", "p">>]

\* getZipURL(version) when GitHub has the tags names, or the request failed
GetZipURL(version, names, failed, platform) ==
    IF failed THEN ZipOf(version, <<>>, 0, platform)
    ELSE ZipOf(version, ListTagsFromGitHub(names),
               BestTagInfo(ListTagsFromGitHub(names), 1, 0, version, GetOsName(platform)),
               platform)

\* /^[\d\.]+$/
IsVersionFormat(text) ==
    Len(text) > 0 /\ \A i \in 1..Len(text) : IsDigit(text[i]) \/ text[i] = "."

\* No version (null)
NoVersion == [major |-> NaN, minor |-> NaN, increment |-> NaN, isNull |-> TRUE]

\* Version.parse(version), with the mark of a version that is not null
VersionParse(text) ==
    IF IsVersionFormat(text)
    THEN [major |-> NewVersion(text).major, minor |-> NewVersion(text).minor,
          increment |-> NewVersion(text).increment, isNull |-> FALSE]
    ELSE NoVersion

\* getVersionFromFilename(filePath) for the path of an item of the folder
GetVersionFromFilename(name) == VersionParse(name)

RECURSIVE NumberText(_)
\* The text of a number in a template string
NumberText(n) ==
    IF n = NaN THEN <<"N", "a", "N">>
    ELSE IF n < 10 THEN <<DecimalDigits[n + 1]>>
    ELSE NumberText(n \div 10) \o <<DecimalDigits[(n % 10) + 1]>>

\* Version.toString()
VersionToString(v) ==
    NumberText(v.major) \o <<".">> \o NumberText(v.minor) \o <<".">> \o NumberText(v.increment)

\* Lines 161-164: the item is deleted
IsDeleted(name, downloadedVersion) ==
    /\ ~GetVersionFromFilename(name).isNull
    /\ Compare(GetVersionFromFilename(name), downloadedVersion) # 0

\* Lines 161-167: the item is taken as the downloaded project
IsKept(name, downloadedVersion) ==
    /\ ~GetVersionFromFilename(name).isNull
    /\ Compare(GetVersionFromFilename(name), downloadedVersion) = 0

\* The folder with one more item, which takes the place of one of its name
WithItem(items, name) ==
    IF \E q \in 1..Len(items) : items[q] = name THEN items ELSE Append(items, name)

\* Lines 158-172 for the items of the downloads folder
DownloadsAfter(items, downloadedVersion) ==
    [called |-> TRUE,
     before |-> items,
     deleted |-> {items[q] : q \in {x \in 1..Len(items) : IsDeleted(items[x], downloadedVersion)}},
     started |-> ~\E q \in 1..Len(items) : IsKept(items[q], downloadedVersion),
     selected |-> downloadedVersion,
     items |-> IF \E q \in 1..Len(items) : IsKept(items[q], downloadedVersion)
               THEN SelectSeq(items, LAMBDA name : ~IsDeleted(name, downloadedVersion))
               ELSE WithItem(SelectSeq(items, LAMBDA name : ~IsDeleted(name, downloadedVersion)),
                             VersionToString(downloadedVersion))]

\* The names of the tags of the project
TagNames ==
    { <<"1",".","5",".","0">>, <<"1",".","5",".","2","-","o","s","x">>, <<"1",".","5",".","3","-","d","e","b","i","a","n">>,
      <<"1",".","5",".","x">>, <<"1",".","6",".","0">>, <<"1",".","5",".","4","-">> }

\* The versions asked for
RequestedVersions == { <<"1",".","5",".","1">>, <<"1",".","6">> }

\* The platforms
Platforms == {"linux", "darwin"}

\* The names of items of the downloads folder
ItemNames ==
    { <<"1",".","5",".","0">>, <<"1",".","5">>, <<"1",".","5",".","2">>,
      <<"1",".">>, <<"n","o","t","e","s">>, <<"1",".","6",".","0">> }

\* No getZipURL since the tags changed
NotCalled ==
    [called |-> FALSE, requested |-> <<>>, failed |-> FALSE, platform |-> "linux",
     version |-> [major |-> 0, minor |-> 0, increment |-> 0], url |-> <<>>]

\* A tag was pushed to the project
PushTag ==
    /\ Len(zip.tags) < MaxTags
    /\ \E name \in TagNames :
          zip' = [tags |-> Append(zip.tags, name)] @@ NotCalled
    /\ UNCHANGED <<docVars, fileVars, compVars, manager, got, compared, downloads>>

\* getZipURL(version) was called
AskZipURL ==
    /\ \E version \in RequestedVersions, failed \in BOOLEAN, platform \in Platforms :
          zip' = [called |-> TRUE, tags |-> zip.tags, requested |-> version,
                  failed |-> failed, platform |-> platform]
                     @@ GetZipURL(NewVersion(version), zip.tags, failed, platform)
    /\ UNCHANGED <<docVars, fileVars, compVars, manager, got, compared, downloads>>

NextZip == PushTag \/ AskZipURL

SpecZip == Init /\ [][NextZip]_vars

\* An item appeared in the downloads folder, before the first download
AddItem ==
    /\ ~downloads.called
    /\ Len(downloads.items) < MaxItems
    /\ \E name \in ItemNames :
          /\ \A q \in 1..Len(downloads.items) : downloads.items[q] # name
          /\ downloads' = [called |-> FALSE, items |-> Append(downloads.items, name),
                           before |-> <<>>, deleted |-> {}, started |-> FALSE,
                           selected |-> [major |-> 0, minor |-> 0, increment |-> 0]]
    /\ UNCHANGED <<docVars, fileVars, compVars, manager, got, compared, zip>>

\* The tags the project may have when a download is asked for
TagLists ==
    { <<>>, <<<<"1",".","5",".","0">>>>,
      <<<<"1",".","5",".","x">>, <<"1",".","5",".","2","-","o","s","x">>>>,
      <<<<"1",".","5",".","2","-","o","s","x">>, <<"1",".","6",".","0">>>> }

\* downloadProject(context, version) ran to its end
DownloadProject ==
    /\ \E version \in RequestedVersions, names \in TagLists, failed \in BOOLEAN,
          platform \in Platforms :
          \E downloaded \in {GetZipURL(NewVersion(version), names, failed, platform)} :
              downloads' = DownloadsAfter(downloads.items, downloaded.version)
    /\ UNCHANGED <<docVars, fileVars, compVars, manager, got, compared, zip>>

NextDownload == AddItem \/ DownloadProject

SpecDownload == Init /\ [][NextDownload]_vars

------------------------------------------------------------------------------
(* Properties *)

\* What one readDocument of doc leaves in a SymbolFile that was never used
FreshRead(doc) == ReadDocument(EmptySymbolFile, doc).f

\* C1: after any sequence of readDocument calls every symbol set and
\* includeDir are exactly those a single readDocument of the last document
\* produces on a fresh SymbolFile; nothing of an earlier document survives.
C1_OnlyLastDocument ==
    /\ sf = FreshRead(document)
    /\ Getters(sf) = Getters(FreshRead(document))

\* The previous document set includeDir, the new one has symbols but no incdir
C1_Witness ==
    /\ prevIncludeDir # <<>>
    /\ sf.includeDir = <<>>
    /\ Len(sf.labels) > 0
    /\ ~reread

\* C2: a second readDocument of the unchanged document leaves labels,
\* variables and macros equal in content (label, range, value, parent, order)
\* to those after the first.
C2_Idempotent ==
    [][reread' => /\ sf'.labels = sf.labels
                  /\ sf'.variables = sf.variables
                  /\ sf'.macros = sf.macros]_vars

\* The document was read again and its boundary pass had rewritten a parent
\* and widened a range
C2_Witness ==
    /\ reread
    /\ \E k \in 1..Len(sf.labels) : sf.labels[k].parent # sf.labels[k].label
    /\ \E k \in 1..Len(sf.labels) : sf.labels[k].range.el > sf.labels[k].range.sl
    /\ Len(sf.variables) > 0

AllFinished == \A c \in 1..NumCalls : calls[c] \in {"done", "rejected"}

\* C3: a reader of the getters sees the complete result of one parse (the
\* parse that completed last before it looked), never a partly filled
\* SymbolFile, and once every readFile call has finished the contents are
\* those of the parse that completed last.
C3_NoPartialSymbolFile ==
    /\ observed = Getters(FreshRead(observedDoc))
    /\ AllFinished => sf = FreshRead(document)

\* Two overlapping calls finished, a reader looked between the two parses,
\* and the parse that completed last was of an older text than the file has
C3_Witness ==
    /\ \A c \in 1..NumCalls : calls[c] = "done"
    /\ snap[1] # snap[2]
    /\ observedDoc # document
    /\ Len(observed.labels) > 0
    /\ document # fileText
    /\ Len(sf.labels) > 0

\* C4: when opening the document fails the promise of readFile rejects and
\* the symbol sets and includeDir stay as they were before the call.
C4_FailureLeavesUnchanged ==
    [][\A c \in 1..NumCalls :
          (calls[c] = "opening" /\ calls'[c] = "rejected")
              => (sf' = sf /\ document' = document)]_vars

\* A call was rejected on a SymbolFile that holds symbols of an earlier parse
C4_Witness ==
    /\ \E c \in 1..NumCalls : calls[c] = "rejected"
    /\ Len(sf.labels) > 0
    /\ sf.includeDir # <<>>

------------------------------------------------------------------------------
(* The document as the claims describe it, read off the lines themselves *)

CallLines == {LblTCallS, CallT}
ReturnLines == {Rts, LblBRts}
MacroLines == {MacroM, LocalMacro}
LocalLines == {LblLocal}

\* The numbers (1-based) of the lines whose label becomes a symbol of labels
LabelLineNos(doc) ==
    SelectSeq([n \in 1..Len(doc) |-> n],
              LAMBDA n : Len(doc[n].label) > 0 /\ doc[n] \notin MacroLines)

NumLabels == Len(sf.labels)
LineOf(k) == LabelLineNos(document)[k]
LabelText(k) == sf.labels[k].label
ParentText(k) == sf.labels[k].parent

\* The operands of the call lines, in file order
CallOperands(doc) ==
    LET nos == SelectSeq([n \in 1..Len(doc) |-> n], LAMBDA n : doc[n] \in CallLines)
    IN [q \in 1..Len(nos) |-> doc[nos[q]].data]

\* The k-th label is the operand of some call line of the document
IsTarget(k) == \E n \in 1..Len(document) :
                  document[n] \in CallLines /\ document[n].data = LabelText(k)

IsReturnLine(n) == n \in 1..Len(document) /\ document[n] \in ReturnLines

IsNonLocalLabelLine(n) ==
    /\ n \in 1..Len(document)
    /\ Len(document[n].label) > 0
    /\ document[n] \notin MacroLines
    /\ document[n] \notin LocalLines

\* The k-th label is the most recent non-local label at some return line
ClosesAtReturn(k) ==
    /\ IsNonLocalLabelLine(LineOf(k))
    /\ \E r \in LineOf(k)..Len(document) :
          /\ IsReturnLine(r)
          /\ \A n \in (LineOf(k) + 1)..r : ~IsNonLocalLabelLine(n)

NotEndedBetween(j, k) == \A x \in j..(k - 1) : x \notin passLog.ended

\* C6: a call target met while tracking is inside subroutine S does not
\* change the parent; the labels after it still get S.
C6_Original ==
    \A j \in 1..NumLabels : \A m \in 1..NumLabels : \A k \in 1..NumLabels :
        ( /\ j < m /\ m < k
          /\ IsTarget(j) /\ IsTarget(m) /\ ~IsTarget(k)
          /\ NotEndedBetween(j, k) )
        => ParentText(k) = LabelText(j)

\* C6 (amended): a call target T met while tracking is inside subroutine S
\* becomes the current parent and tracking goes on: T keeps its own parent and
\* the labels after T, up to the end of tracking or the next call target,
\* get T.
C6_NestedTargetBecomesParent ==
    \A j \in 1..NumLabels : \A m \in 1..NumLabels : \A k \in 1..NumLabels :
        ( /\ j < m /\ m < k
          /\ IsTarget(j) /\ IsTarget(m)
          /\ \A x \in (m + 1)..k : ~IsTarget(x)
          /\ NotEndedBetween(j, k) )
        => /\ ParentText(k) = LabelText(m)
           /\ ParentText(m) = LabelText(m)

\* Inside S a different call target T was met and a later label got T
C6_Witness ==
    \E j \in 1..NumLabels : \E m \in 1..NumLabels : \E k \in 1..NumLabels :
        /\ j < m /\ m < k
        /\ IsTarget(j) /\ IsTarget(m) /\ ~IsTarget(k)
        /\ NotEndedBetween(j, k)
        /\ LabelText(j) # LabelText(m)
        /\ ParentText(k) = LabelText(m)

\* The labels the pass assigned to the p-th label: those that follow it up to
\* the next call target and carry a parent other than themselves
AssignedTo(p) ==
    {k \in (p + 1)..NumLabels :
        /\ ParentText(k) # LabelText(k)
        /\ \A x \in (p + 1)..k : ~IsTarget(x)}

\* The ranges the p-th label started with and was widened by
Folded(p) ==
    {LabelRange(document[LineOf(p)], LineOf(p) - 1)}
        \cup {sf.labels[k].range : k \in AssignedTo(p)}

\* r is the union of the ranges of set
IsUnionOf(r, set) ==
    /\ \A x \in set : RangeContains(r, x)
    /\ \E x \in set : x.sl = r.sl /\ x.sc = r.sc
    /\ \E x \in set : x.el = r.el /\ x.ec = r.ec

\* C7: a label L whose parent is not its own label has an earlier label P
\* in labels with P.label = L.parent, P is a call target and the range of P
\* contains the range of L; the range of a call target is the union of its
\* own range and the ranges of the labels assigned to it.
C7_ParentPrecedesAndContains ==
    /\ \A k \in 1..NumLabels :
          ParentText(k) # LabelText(k) =>
              \E p \in 1..(k - 1) :
                  /\ LabelText(p) = ParentText(k)
                  /\ InSeq(sf.subroutines, LabelText(p))
                  /\ RangeContains(sf.labels[p].range, sf.labels[k].range)
    /\ \A p \in 1..NumLabels :
          IF IsTarget(p)
          THEN IsUnionOf(sf.labels[p].range, Folded(p))
          ELSE sf.labels[p].range = LabelRange(document[LineOf(p)], LineOf(p) - 1)

\* A call target holds two assigned labels and spans their lines
C7_Witness ==
    \E p \in 1..NumLabels :
        /\ IsTarget(p)
        /\ Cardinality(AssignedTo(p)) >= 2
        /\ sf.labels[p].range.el >= sf.labels[p].range.sl + 2

\* C8: a label whose call line comes later in the file than the label is
\* still a subroutine entry: the pass starts tracking at it.
C8_LaterCallStillEntry ==
    \A k \in 1..NumLabels :
        (\E n \in (LineOf(k) + 1)..Len(document) :
             document[n] \in CallLines /\ document[n].data = LabelText(k))
        => /\ k \in passLog.started
           /\ ParentText(k) = LabelText(k)
           /\ (k < NumLabels /\ ~IsTarget(k + 1) /\ ~ClosesAtReturn(k))
                  => ParentText(k + 1) = LabelText(k)

\* The only call of a label is on the last line, after the label and after
\* the label that got it as parent
C8_Witness ==
    \E k \in 1..NumLabels :
        /\ k < NumLabels
        /\ k \in passLog.started
        /\ ParentText(k + 1) = LabelText(k)
        /\ \A n \in 1..Len(document) :
              (document[n] \in CallLines /\ document[n].data = LabelText(k))
                  => (n = Len(document) /\ n > LineOf(k + 1))
        /\ document[Len(document)] \in CallLines

\* C9: subroutines holds the operand of every call line (bsr, with or without
\* size, in any case), in file order, and nothing else; the pass starts
\* tracking at a label exactly when its name is in subroutines.
C9_SubroutineNames ==
    /\ sf.subroutines = CallOperands(document)
    /\ passLog.started = {k \in 1..NumLabels : InSeq(sf.subroutines, LabelText(k))}

\* Calls in both spellings, a jsr that is not recorded, an entry and a label
\* that is no entry
C9_Witness ==
    /\ Len(sf.subroutines) >= 1
    /\ \E n \in 1..Len(document) : document[n] = CallT
    /\ \E n \in 1..Len(document) : document[n] = JumpA
    /\ passLog.started # {}
    /\ \E k \in 1..NumLabels : k \notin passLog.started

\* The text a local label is stored with: the label of the nearest preceding
\* non-local label line, or "undefined" when there is none, then the local text
PrefixAt(n) ==
    LET before == {m \in 1..(n - 1) : IsNonLocalLabelLine(m)}
    IN IF before = {} THEN UndefinedText
       ELSE ReplaceFirst(document[CHOOSE m \in before : \A x \in before : x <= m].label, ":")

------------------------------------------------------------------------------
(* Data definitions, includes, macros and the defined and referred symbols *)

DataLines == {DcB, LblDDs, Incbin}

\* The number of lines up to line n whose label became a symbol of labels:
\* the position in labels of the nearest label at or before line n (0: none)
LabelsUpTo(doc, n) ==
    Cardinality({m \in 1..n : Len(doc[m].label) > 0 /\ doc[m] \notin MacroLines})

\* The numbers of the data-definition lines that have a label at or before them
OwnedDataLineNos(doc) ==
    SelectSeq([n \in 1..Len(doc) |-> n],
              LAMBDA n : doc[n] \in DataLines /\ LabelsUpTo(doc, n) > 0)

\* C12: for every dc/ds/incbin line the recorded data-definition owner is the
\* nearest preceding label of any kind, global or local, whatever the
\* subroutine boundaries are.
C12_OwnerIsNearestLabel ==
    sf.dcLabel = [q \in 1..Len(OwnedDataLineNos(document)) |->
                     LabelsUpTo(document, OwnedDataLineNos(document)[q])]

\* Every symbol of the sequence has its own label as parent
OwnParent(symbols) == \A k \in 1..Len(symbols) : symbols[k].parent = symbols[k].label

\* C13: after readDocument every symbol of definedSymbols, referredSymbols,
\* variables, macros and includedFiles has parent = label; a symbol of labels
\* has another parent only when the boundary pass gave it the label of an
\* earlier label at which tracking started.
C13_ParentIsOwnLabel ==
    /\ OwnParent(sf.definedSymbols)
    /\ OwnParent(sf.referredSymbols)
    /\ OwnParent(sf.variables)
    /\ OwnParent(sf.macros)
    /\ OwnParent(sf.includedFiles)
    /\ \A k \in 1..NumLabels :
          ParentText(k) # LabelText(k) =>
              \E p \in passLog.started : p < k /\ ParentText(k) = LabelText(p)

\* The pass rewrote the parent of a label whose line also gave a defined
\* symbol, and the document has another kind of symbol
C13_Witness ==
    /\ \E k \in 1..NumLabels : ParentText(k) # LabelText(k)
    /\ Len(sf.definedSymbols) >= 2
    /\ Len(sf.includedFiles) + Len(sf.macros) + Len(sf.variables) > 0

IncdirLines == {Incdir, IncdirE}

\* The operand of an incdir line as written, without its quotes
IncdirOperand(line) == IF line = Incdir THEN <<"d">> ELSE <<"e">>

LastIncdirNo(doc) ==
    LET nos == {n \in 1..Len(doc) : doc[n] \in IncdirLines}
    IN IF nos = {} THEN 0 ELSE CHOOSE n \in nos : \A x \in nos : x <= n

\* C14: after readDocument includeDir is the operand of the last incdir line
\* without its double quotes, or the empty string when there is no incdir.
C14_LastIncdirWins ==
    sf.includeDir = IF LastIncdirNo(document) = 0 THEN <<>>
                    ELSE IncdirOperand(document[LastIncdirNo(document)])

\* Two incdir lines; the last one is quoted and wins
C14_Witness ==
    /\ \E n \in 1..Len(document) : document[n] = IncdirE /\ n < LastIncdirNo(document)
    /\ document[LastIncdirNo(document)] = Incdir
    /\ sf.includeDir = <<"d">>

IncludeLines == {Include, LblInclude}

IncludeOperand(line) == IF line = Include THEN <<"f">> ELSE <<"g">>

IncludeLineNos(doc) ==
    SelectSeq([n \in 1..Len(doc) |-> n], LAMBDA n : doc[n] \in IncludeLines)

\* C15: includedFiles has exactly one symbol per include line, in file order,
\* labelled with the operand without its quotes and placed on that line, and
\* every symbol of includedFiles is also in definedSymbols.
C15_IncludedFiles ==
    /\ Len(sf.includedFiles) = Len(IncludeLineNos(document))
    /\ \A q \in 1..Len(sf.includedFiles) :
          /\ sf.includedFiles[q].label = IncludeOperand(document[IncludeLineNos(document)[q]])
          /\ sf.includedFiles[q].range.sl = IncludeLineNos(document)[q] - 1
          /\ InSeq(sf.definedSymbols, sf.includedFiles[q])

\* Two include lines, the labelled one first
C15_Witness ==
    /\ Len(sf.includedFiles) = 2
    /\ sf.includedFiles[1].label = <<"g">>
    /\ sf.includedFiles[2].label = <<"f">>

\* The symbols of a sequence that lie on line n (1-based)
SymbolsAt(symbols, n) == SelectSeq(symbols, LAMBDA x : x.range.sl = n - 1)

LabelsOf(symbols) == [k \in 1..Len(symbols) |-> symbols[k].label]

\* The line defines a label or a variable
Defines(line) == Len(line.label) > 0 \/ Len(line.variable) > 0

\* The lines whose operand is an identifier, and the mnemonic of a line
IdentOperandLines == {JumpA, IncdirE, MacroData, LblTCallS, LblDDs, LblInclude}
ExpectedMnemonic(line) == IF line = DcB THEN <<"d","c">> ELSE line.instruction

\* The referred symbols of a line that defines nothing: the identifier of
\* the operand, then the mnemonic
ExpectedReferred(line) ==
    (IF line \in IdentOperandLines THEN <<line.data>> ELSE <<>>)
        \o (IF Len(line.instruction) > 0 THEN <<ExpectedMnemonic(line)>> ELSE <<>>)

\* C16: every line gives either one defined symbol (it defines a label or a
\* variable) or referred symbols (operand identifiers and mnemonic), never
\* both.
C16_Original ==
    \A n \in 1..Len(document) :
        IF Defines(document[n])
        THEN /\ Len(SymbolsAt(sf.definedSymbols, n)) = 1
             /\ Len(SymbolsAt(sf.referredSymbols, n)) = 0
        ELSE /\ Len(SymbolsAt(sf.definedSymbols, n)) = 0
             /\ LabelsOf(SymbolsAt(sf.referredSymbols, n)) = ExpectedReferred(document[n])

\* C16 (amended): a line that defines a label or a variable gives one
\* defined symbol for it and no referred symbol, even when its operand names
\* a symbol; any other line gives its operand identifiers and its mnemonic as
\* referred symbols; in addition an include line gives the included file as
\* one more defined symbol, whether or not the line has a label.
C16_DefinedOrReferred ==
    \A n \in 1..Len(document) :
        /\ Len(SymbolsAt(sf.definedSymbols, n)) =
               (IF Defines(document[n]) THEN 1 ELSE 0)
                   + (IF document[n] \in IncludeLines THEN 1 ELSE 0)
        /\ LabelsOf(SymbolsAt(sf.referredSymbols, n)) =
               IF Defines(document[n]) THEN <<>> ELSE ExpectedReferred(document[n])

\* A labelled line whose operand names a symbol, a line with an operand
\* identifier and a mnemonic, and an include line without a label
C16_Witness ==
    /\ \E n \in 1..Len(document) :
          /\ document[n] = LblTCallS
          /\ Len(SymbolsAt(sf.referredSymbols, n)) = 0
    /\ \E n \in 1..Len(document) :
          /\ document[n] = JumpA
          /\ Len(SymbolsAt(sf.referredSymbols, n)) = 2
    /\ \E n \in 1..Len(document) :
          /\ document[n] = Include
          /\ Len(SymbolsAt(sf.definedSymbols, n)) = 1
          /\ Len(SymbolsAt(sf.referredSymbols, n)) = 1

\* The position in labels of the last non-local label of the document (0: none)
LastGlobalLabel(doc) ==
    LET nos == {n \in 1..Len(doc) : IsNonLocalLabelLine(n)}
    IN IF nos = {} THEN 0
       ELSE LabelsUpTo(doc, CHOOSE n \in nos : \A x \in nos : x <= n)

\* C17: a line with a label gives exactly one symbol, to macros when its
\* instruction is the macro keyword and to labels otherwise; a line without
\* label and with the macro keyword gives its operand to macros; no line gives
\* a symbol to both; the last global label is the last non-local label that
\* went to labels.
C17_LabelOrMacro ==
    /\ \A n \in 1..Len(document) :
          IF Len(document[n].label) > 0
          THEN IF document[n] \in MacroLines
               THEN /\ Len(SymbolsAt(sf.macros, n)) = 1
                    /\ Len(SymbolsAt(sf.labels, n)) = 0
               ELSE /\ Len(SymbolsAt(sf.labels, n)) = 1
                    /\ Len(SymbolsAt(sf.macros, n)) = 0
          ELSE /\ Len(SymbolsAt(sf.labels, n)) = 0
               /\ LabelsOf(SymbolsAt(sf.macros, n)) =
                      IF document[n] = MacroData THEN <<document[n].data>> ELSE <<>>
    /\ passLog.lastLabel = LastGlobalLabel(document)

\* A global label, a macro named by its label and a local label: the macro
\* did not become the last global label, nor did the local label
C17_Witness ==
    /\ Len(document) = 3
    /\ document[2] = MacroM
    /\ Len(sf.macros) = 1
    /\ Len(sf.labels) = 2
    /\ sf.labels[2].label = <<"S", ".", "l">>
    /\ passLog.lastLabel = 1


------------------------------------------------------------------------------
(* The parts of a line and the completions that depend on them only *)

\* The line of the last request and its parts
RequestText == lineTexts[cursor.line + 1]
RequestParts == ParseLine(RequestText)
Requested == probe.branch # "idle"

\* The four field ranges of a parsed line, left to right
FieldRanges(p) ==
    << PartLabelRange(p), PartInstructionRange(p), PartDataRange(p), PartCommentRange(p) >>

\* Each range is a range of the line, and each ends where the next starts
\* or before
OrderedRanges(p) ==
    /\ \A k \in 1..4 : /\ 0 <= FieldRanges(p)[k].start
                       /\ FieldRanges(p)[k].start <= FieldRanges(p)[k].end
                       /\ FieldRanges(p)[k].end <= Len(p.text)
    /\ \A k \in 1..3 : FieldRanges(p)[k].end <= FieldRanges(p)[k + 1].start
    /\ PartMnemonicRange(p).start = PartInstructionRange(p).start
    /\ PartMnemonicRange(p).end <= PartInstructionRange(p).end
    /\ PartMnemonicRange(p).start <= PartMnemonicRange(p).end

\* A field without text has an empty range
AbsentIsEmpty(p) ==
    /\ FieldsOf(p).instruction = <<>> => PartInstructionRange(p).start = PartInstructionRange(p).end
    /\ (FieldsOf(p).label = <<>> /\ FieldsOf(p).variable = <<>>)
           => PartLabelRange(p).start = PartLabelRange(p).end
    /\ (FieldsOf(p).data = <<>> /\ FieldsOf(p).value = <<>>)
           => PartDataRange(p).start = PartDataRange(p).end

\* Column ch is strictly inside one of the fields
StrictlyInside(p, ch) ==
    \E k \in 1..4 : FieldRanges(p)[k].start < ch /\ ch < FieldRanges(p)[k].end

Count(flags) == Cardinality({k \in 1..Len(flags) : flags[k]})

\* C19: every line of the document parses into label, instruction (with its
\* mnemonic), data and comment ranges that lie in the line, do not overlap
\* and are ordered left to right, an absent field having an empty range; and
\* for a request whose cursor is strictly inside a field at most one of
\* isInComment, isInMnemonic, isInData is true.
C19_RangesOrdered ==
    /\ \A n \in 1..Len(lineTexts) :
          OrderedRanges(ParseLine(lineTexts[n])) /\ AbsentIsEmpty(ParseLine(lineTexts[n]))
    /\ (Requested /\ StrictlyInside(RequestParts, cursor.character))
          => Count(<<probe.isInComment, probe.isInMnemonic, probe.isInData>>) <= 1

\* A request strictly inside the data of a line that also has an instruction
C19_Witness ==
    /\ Requested
    /\ RequestParts.instrStart < RequestParts.instrEnd
    /\ RequestParts.dataStart < cursor.character
    /\ cursor.character < RequestParts.dataEnd
    /\ probe.isInData /\ ~probe.isInMnemonic /\ ~probe.isInComment

\* The word that ends at column e of the text ("" when none does)
WordEndingAt(text, e) ==
    Cut(text, MinOr({i \in 0..e : \A k \in (i + 1)..e : IsWordCharacter(text[k])}, e), e)

\* There is a word at column ch of the text, or touching it
WordAt(text, ch) ==
    \/ ch < Len(text) /\ IsWordCharacter(text[ch + 1])
    \/ ch > 0 /\ IsWordCharacter(text[ch])

\* No word at the cursor, a dot before it, and the dot in the instruction
SizePosition(p, ch) ==
    /\ ~WordAt(p.text, ch)
    /\ ch > 0 /\ p.text[ch] = "."
    /\ p.instrStart <= ch - 1 /\ ch - 1 <= p.instrEnd

\* The labels of the size items of a word
ExpectedSizeLabels(word) ==
    [k \in 1..Len(GetExtensions(ToLowerCase(word))) |->
        IF word = ToUpperCase(word)
        THEN ToUpperCase(GetExtensions(ToLowerCase(word))[k])
        ELSE GetExtensions(ToLowerCase(word))[k]]

ItemLabels(items) == [k \in 1..Len(items) |-> items[k].label]

------------------------------------------------------------------------------
(* Completion of local labels *)

\* The request is for a word with a dot before it, outside the mnemonic
DottedRequest ==
    /\ Requested
    /\ probe.branch = "symbols"
    /\ ~probe.isInMnemonic
    /\ probe.wordRange.start > 0
    /\ RequestText[probe.wordRange.start] = "."

\* The dotted word at the cursor
DottedWord == Cut(RequestText, probe.wordRange.start - 1, probe.wordRange.end)

\* The nearest line, from the line of the cursor upwards, that starts with a
\* word character (0: none)
NearestWordLine ==
    MaxOr({n \in 1..(cursor.line + 1) :
              Len(lineTexts[n]) > 0 /\ IsWordCharacter(lineTexts[n][1])}, 0)

\* Line n defines a global label: a label that is not local, on a line that
\* is not a macro definition
DefinesGlobalLabel(n) ==
    /\ n \in 1..Len(document)
    /\ Len(document[n].label) > 0
    /\ document[n].label[1] # "."
    /\ ~StartsWith(ToLowerCase(document[n].instruction), <<"m","a","c","r","o">>)

\* Line n defines a local label
DefinesLocalLabel(n) ==
    /\ n \in 1..Len(document)
    /\ Len(document[n].label) > 0
    /\ document[n].label[1] = "."
    /\ ~StartsWith(ToLowerCase(document[n].instruction), <<"m","a","c","r","o">>)

GlobalText(n) == ReplaceFirst(document[n].label, ":")

------------------------------------------------------------------------------
(* Completion of include paths *)

IncludeRequest == Requested /\ probe.branch = "include"

\* The path names an existing folder of the disk
FolderOnDisk(file) == file = <<>> \/ [path |-> file, kind |-> "dir"] \in fsEntries

\* The include directory of the file names a folder, as an absolute path or
\* relative to the folder of the document
IncludeDirResolves ==
    /\ Len(sf.includeDir) > 0
    /\ \/ FolderOnDisk(FileOf(sf.includeDir))
       \/ FolderOnDisk(GetRelativeFile(GetParent(DocumentFile), sf.includeDir))

\* The part of the operand typed up to the cursor, without its quote
TypedSoFar ==
    Cut(RequestText,
        IF CharAt(RequestText, RequestParts.dataStart) = <<"\"">>
        THEN RequestParts.dataStart + 1 ELSE RequestParts.dataStart,
        cursor.character)

\* The typed text is a name being typed, not a path to a folder
PlainName ==
    /\ \A k \in 1..Len(TypedSoFar) : TypedSoFar[k] \notin {"/", "\\"}
    /\ ~FolderOnDisk(<<TypedSoFar>>)
    /\ ~FolderOnDisk(GetParent(DocumentFile) \o <<TypedSoFar>>)

\* The labels of the entries of the folder of the document that start with
\* the typed name, without the document itself and the hidden entries
OwnFolderLabels ==
    { IF e.kind = "dir" THEN GetName(e.path) \o <<"/">> ELSE GetName(e.path) :
        e \in { x \in fsEntries : /\ GetParent(x.path) = GetParent(DocumentFile)
                                  /\ x.path # DocumentFile
                                  /\ GetName(x.path)[1] # "."
                                  /\ StartsWith(GetName(x.path), TypedSoFar) } }

\* C18: an include request for a file without include directory, or with one
\* that names no existing folder as an absolute path or relative to the
\* folder of the document, finds no include directory and returns exactly
\* the listing made from the folder of the document; for a plain name typed
\* so far these are the matching entries of that folder, each once.
C18_FallsBackToOwnFolder ==
    (IncludeRequest /\ ~IncludeDirResolves) =>
        /\ ~probe.includeDir.found
        /\ returned = CleanAndReorder(
                          ProvideCompletionsForFile(fsEntries, FieldsOf(RequestParts).data,
                                                    RequestParts.dataStart, DocumentFile,
                                                    GetParent(DocumentFile),
                                                    cursor.character, TRUE))
        /\ PlainName =>
              /\ {returned[q].label : q \in 1..Len(returned)} = OwnFolderLabels
              /\ Len(returned) = Cardinality(OwnFolderLabels)

\* The include directory names a file, the document is saved, and the
\* request got the file a of the folder of the document
C18_Witness ==
    /\ IncludeRequest
    /\ sf.includeDir = <<"i">>
    /\ [path |-> << <<"i">> >>, kind |-> "file"] \in fsEntries
    /\ ~IncludeDirResolves
    /\ Exists(fsEntries, DocumentFile)
    /\ PlainName
    /\ \E q \in 1..Len(returned) : returned[q].label = <<"a">>


------------------------------------------------------------------------------
(* Local labels before the first global label *)

\* The k-th label is local and no non-local label was stored before its line
LocalBeforeGlobals(k) ==
    /\ document[LineOf(k)] \in LocalLines
    /\ \A m \in 1..(LineOf(k) - 1) : ~IsNonLocalLabelLine(m)

\* C28: a local label that comes before every non-local label of the file
\* is stored in labels as the text "undefined" followed by its local text,
\* and not as the label of any global label of the file followed by it.
C28_UndefinedPrefix ==
    \A k \in 1..NumLabels :
        LocalBeforeGlobals(k) =>
            /\ LabelText(k) = UndefinedText \o ReplaceFirst(document[LineOf(k)].label, ":")
            /\ \A m \in 1..Len(document) :
                  IsNonLocalLabelLine(m)
                    => LabelText(k) # ReplaceFirst(document[m].label, ":")
                                         \o ReplaceFirst(document[LineOf(k)].label, ":")

\* A local label is followed by a global label and is stored as undefined.l
C28_Witness ==
    \E k \in 1..NumLabels :
        /\ LocalBeforeGlobals(k)
        /\ \E m \in (LineOf(k) + 1)..Len(document) : IsNonLocalLabelLine(m)
        /\ LabelText(k) = UndefinedText \o <<".", "l">>


------------------------------------------------------------------------------
(* The prefix of local labels in completion and in readDocument *)

\* The prefix readDocument gives a local label on the line of the cursor:
\* the label of the nearest global label stored before that line, or the
\* text "undefined"
ReadPrefixAtCursor ==
    IF \E m \in 1..cursor.line : DefinesGlobalLabel(m)
    THEN GlobalText(MaxOr({m \in 1..cursor.line : DefinesGlobalLabel(m)}, 0))
    ELSE UndefinedText

\* C27: for a request on a dotted word, the prefix the completion prepends
\* equals the prefix readDocument uses for local labels on that line.
C27_PrefixesAgree ==
    DottedRequest => probe.labelPrefix = ReadPrefixAtCursor


------------------------------------------------------------------------------
(* Symbol completions by field *)

SymbolRequest == Requested /\ probe.branch = "symbols"

\* The kinds of items the provider builds from symbols
IsMacroItem(it) == it.kind = "Function" /\ it.detail = <<"macro">>
IsLabelItem(it) == it.kind = "Function" /\ Len(it.detail) > 0 /\ it.detail[1] = "label "
IsVariableItem(it) == it.kind = "Variable" /\ HasRange(it.range)

\* The name of the symbol behind the q-th returned item
SymbolNameOf(q) ==
    IF IsLabelItem(returned[q]) THEN probe.labelPrefix \o returned[q].label
    ELSE returned[q].label

\* The name was the label of an item returned before the q-th
EmittedBefore(name, q) == \E x \in 1..(q - 1) : returned[x].label = name

\* The name is the label of a returned item of the kind
Offered(name, IsKind(_)) ==
    \E q \in 1..Len(returned) : IsKind(returned[q]) /\ SymbolNameOf(q) = name

\* The names of the symbols that start with the word of the request
NamesStarting(symbols) ==
    {symbols[k].label : k \in {x \in 1..Len(symbols) : StartsWith(symbols[x].label, probe.word)}}

\* C21: a request in the mnemonic returns macros and neither labels nor
\* variables, a request outside it labels and variables and no macros; no
\* symbol is returned under the label of an item returned before it, and a
\* symbol of the kinds of the field that starts with the word is returned
\* unless its name is the label of another returned item.
C21_SymbolsByField ==
    SymbolRequest =>
        /\ \A q \in 1..Len(returned) :
              /\ probe.isInMnemonic => ~IsLabelItem(returned[q]) /\ ~IsVariableItem(returned[q])
              /\ ~probe.isInMnemonic => ~IsMacroItem(returned[q])
              /\ (IsMacroItem(returned[q]) \/ IsLabelItem(returned[q]) \/ IsVariableItem(returned[q]))
                    => ~EmittedBefore(SymbolNameOf(q), q)
        /\ probe.isInMnemonic =>
              \A name \in NamesStarting(sf.macros) :
                  Offered(name, IsMacroItem) \/ \E q \in 1..Len(returned) : returned[q].label = name
        /\ ~probe.isInMnemonic =>
              /\ \A name \in NamesStarting(sf.labels) :
                    Offered(name, IsLabelItem) \/ \E q \in 1..Len(returned) : returned[q].label = name
              /\ \A name \in NamesStarting(sf.variables) :
                    Offered(name, IsVariableItem) \/ \E q \in 1..Len(returned) : returned[q].label = name

\* In the operand, with a register, a label and a variable that start with
\* the word: the register and the label DMAX are returned, and the variable
\* of the same name is not
C21_Witness ==
    /\ SymbolRequest
    /\ ~probe.isInMnemonic
    /\ NamesStarting(sf.variables) = {<<"D","M","A","X">>}
    /\ NamesStarting(sf.labels) = {<<"D","M","A","X">>}
    /\ Len(returned) = 2
    /\ returned[1].label = <<"D","M","A","C","O","N">> /\ ~IsLabelItem(returned[1])
    /\ returned[2].label = <<"D","M","A","X">> /\ IsLabelItem(returned[2])


------------------------------------------------------------------------------
(* The list of an include request *)

\* The listing of the request made from the folder
RequestListing(parent, checkAbsolute) ==
    ListingOf(fsEntries, FieldsOf(RequestParts).data, RequestParts.dataStart,
              parent, cursor.character, checkAbsolute)

\* The listing made from the folder of the document
OwnListing == RequestListing(GetParent(DocumentFile), TRUE)

\* The listings of the request: the include directory's, if one was found,
\* and the one made from the folder of the document
RequestListings ==
    (IF probe.includeDir.found
     THEN {RequestListing(probe.includeDir.file, FALSE)} ELSE {})
        \cup {OwnListing}

\* The entry of the disk is offered by the item: a folder with a trailing
\* slash and a sort text that starts with A, a file under its name with a
\* sort text that starts with B
Offers(it, e) ==
    IF e.kind = "dir"
    THEN /\ it.label = GetName(e.path) \o <<"/">>
         /\ it.kind = "Folder"
         /\ it.sortText = <<"A">> \o it.label
    ELSE /\ it.label = GetName(e.path)
         /\ it.kind = "File"
         /\ it.sortText = <<"B">> \o it.label

\* The entries of the disk a listing may offer: those of its folder that
\* are not the document, are not hidden and start with its filter
Offerable(listing) ==
    { e \in fsEntries : /\ GetParent(e.path) = listing.parent
                        /\ e.path # DocumentFile
                        /\ GetName(e.path)[1] # "."
                        /\ StartsWith(GetName(e.path), listing.filter) }

\* The name of the entry behind an item
EntryName(it) ==
    IF it.kind = "Folder" THEN SubSeq(it.label, 1, Len(it.label) - 1) ELSE it.label

\* C22 as amended: the list of an include request has no two items with the
\* same label; every item offers an entry of one of the two listings that
\* is not the document, is not hidden and starts with the filter of that
\* listing (folders with a trailing slash and a sort text before that of
\* every file); every entry a listing may offer is in the list, and the item
\* of a name that the folder of the document offers too is the item of that
\* folder.
C22_IncludeList ==
    IncludeRequest =>
        /\ \A q, x \in 1..Len(returned) : returned[q].label = returned[x].label => q = x
        /\ \A q \in 1..Len(returned) :
              /\ \E listing \in RequestListings :
                    \E e \in Offerable(listing) : Offers(returned[q], e)
              /\ returned[q].label[1] # "."
              /\ (\E e \in Offerable(OwnListing) : returned[q].label = FileItem(fsEntries, e.path).label)
                    => \E e \in Offerable(OwnListing) : returned[q] = FileItem(fsEntries, e.path)
        /\ \A listing \in RequestListings : \A e \in Offerable(listing) :
              \E q \in 1..Len(returned) : Offers(returned[q], e)
        /\ \A q, x \in 1..Len(returned) :
              (returned[q].kind = "Folder" /\ returned[x].kind = "File")
                  => returned[q].sortText[1] = "A" /\ returned[x].sortText[1] = "B"

\* The file a is in the include directory and in the folder of the document
\* and is returned once; the folder s of the document is returned as s/
C22_Witness ==
    /\ IncludeRequest
    /\ probe.includeDir.found
    /\ probe.includeDir.file = << <<"i">> >>
    /\ [path |-> << <<"i">>, <<"a">> >>, kind |-> "file"] \in fsEntries
    /\ Len(TypedSoFar) = 0
    /\ Cardinality({q \in 1..Len(returned) : returned[q].label = <<"a">>}) = 1
    /\ \E q \in 1..Len(returned) : returned[q].label = <<"s", "/">>

\* C22 as stated: when a filter applies to a listing of an include request,
\* every returned item is an entry whose name starts with that filter.
C22_Original ==
    IncludeRequest =>
        \A listing \in RequestListings : Len(listing.filter) > 0 =>
            \A q \in 1..Len(returned) : StartsWith(EntryName(returned[q]), listing.filter)


------------------------------------------------------------------------------
(* DocumentationManager.get *)

\* The values of a map
Loaded(entries) == {entries[q].value : q \in 1..Len(entries)}

\* The registers loaded with the address, and with the name
RegistersAt(address) == {r \in Loaded(manager.registersByAddress) : r.address = address}
RegistersNamed(name) == {r \in Loaded(manager.registersByName) : r.name = name}

\* The functions loaded with the name, and with the name in upper case
FunctionsNamed(name) == {f \in Loaded(manager.functionsByName) : f.name = name}
FunctionsNamedUpper(name) ==
    {f \in Loaded(manager.functionsByName) : ToUpperCase(f.name) = name}

\* The keyword of the last get up to its first parenthesis, when that is not
\* its first character, and without a leading _LVO
AskedFunction ==
    LET paren == {i \in 1..Len(got.keyword) : got.keyword[i] = "("}
        cut == IF paren = {} \/ 1 \in paren THEN got.keyword
               ELSE SubSeq(got.keyword, 1, (CHOOSE i \in paren : \A j \in paren : i <= j) - 1)
    IN IF Len(cut) >= 4 /\ SubSeq(cut, 1, 4) = <<"_", "L", "V", "O">>
       THEN SubSeq(cut, 5, Len(cut)) ELSE cut

\* The descriptions get may return when the functions that match are fns
Resolved(fns) ==
    IF Len(got.keyword) = 0 THEN {Null}
    ELSE IF RegistersAt(got.keyword) # {}
    THEN {Description(r) : r \in RegistersAt(got.keyword)}
    ELSE IF RegistersNamed(got.keyword) # {}
    THEN {Description(r) : r \in RegistersNamed(got.keyword)}
    ELSE IF fns # {} THEN {Description(f) : f \in fns}
    ELSE {Null}

\* C23 as amended: get returns null for the empty keyword; otherwise the
\* description of the register whose address equals the keyword; otherwise
\* of the register whose name equals it; otherwise of the library function
\* whose name in upper case equals the keyword cut at its first parenthesis
\* (when not at index 0) and stripped of a leading _LVO; otherwise null.
C23_GetPriority == got.asked => got.value \in Resolved(FunctionsNamedUpper(AskedFunction))

\* C is the address of one register, the name of another and the key of a
\* function, and get("C") returned the register at the address C
C23_Witness ==
    /\ got.asked
    /\ got.keyword = <<"C">>
    /\ RegistersNamed(<<"C">>) # {}
    /\ FunctionsNamedUpper(<<"C">>) # {}
    /\ \E r \in RegistersAt(<<"C">>) : r.name = <<"D">> /\ got.value = Description(r)

\* C23 as stated: the function found is the one named by the keyword cut
\* and stripped.
C23_Original == got.asked => got.value \in Resolved(FunctionsNamed(AskedFunction))


------------------------------------------------------------------------------
(* Version.compare and isCompatible *)

\* v is greater than u in the lexicographic order of (major, minor, increment)
LexGreater(v, u) ==
    \/ Greater(v.major, u.major)
    \/ v.major = u.major /\ Greater(v.minor, u.minor)
    \/ v.major = u.major /\ v.minor = u.minor /\ Greater(v.increment, u.increment)

\* C24: a.compare(b) is 1 iff b is greater than a in the lexicographic order
\* of (major, minor, increment), -1 iff a is greater than b and 0 iff the
\* three fields are equal; a.compare(b) = -b.compare(a); compare is
\* transitive; isCompatible(a, b) iff major and minor are equal.
C24_CompareIsLexicographic ==
    compared.called =>
        /\ compared.ab = 1 <=> LexGreater(compared.b, compared.a)
        /\ compared.ab = -1 <=> LexGreater(compared.a, compared.b)
        /\ compared.ab = 0 <=> compared.a = compared.b
        /\ compared.ab = -compared.ba
        /\ (compared.ab = 1 /\ compared.bc = 1) => compared.ac = 1
        /\ (compared.ab = -1 /\ compared.bc = -1) => compared.ac = -1
        /\ (compared.ab = 0 /\ compared.bc = 0) => compared.ac = 0
        /\ compared.compatible <=> (compared.a.major = compared.b.major
                                     /\ compared.a.minor = compared.b.minor)

\* The fields of the three versions are numbers
AllNumbers ==
    \A v \in {compared.a, compared.b, compared.c} :
        v.major # NaN /\ v.minor # NaN /\ v.increment # NaN

\* What C24 says holds of versions whose fields are numbers
C24_HoldsOfNumbers == (compared.called /\ AllNumbers) => C24_CompareIsLexicographic


------------------------------------------------------------------------------
(* getZipURL *)

\* The tags of the last getZipURL, and the version asked for
AskedTags == ListTagsFromGitHub(zip.tags)
AskedVersion == NewVersion(zip.requested)

\* The tags that qualify: the extension is absent or the name of the OS,
\* and major and minor are those of the version asked for
Qualifying ==
    {k \in 1..Len(AskedTags) :
        /\ AskedTags[k].extension \in {NoValue, GetOsName(zip.platform)}
        /\ AskedTags[k].version.major = AskedVersion.major
        /\ AskedTags[k].version.minor = AskedVersion.minor}

\* The k-th tag has the greatest version of those that qualify and is the
\* first listed of that version
IsGreatest(k) ==
    /\ k \in Qualifying
    /\ \A j \in Qualifying :
          \/ AskedTags[j].version = AskedTags[k].version /\ k <= j
          \/ LexGreater(AskedTags[k].version, AskedTags[j].version)

\* C25: getZipURL returns the version and URL of the tag with the greatest
\* version among the tags that have the major and minor of the version asked
\* for and no extension or that of the OS, the first listed among equal
\* versions; when there is none or the listing failed, the version asked for
\* and the URL of the branch of the OS.
C25_GreatestCompatibleTag ==
    zip.called =>
        IF ~zip.failed /\ Qualifying # {}
        THEN \E k \in Qualifying :
                /\ IsGreatest(k)
                /\ zip.version = AskedTags[k].version
                /\ zip.url = AskedTags[k].zipball_url
        ELSE /\ zip.version = AskedVersion
             /\ zip.url = BranchURL \o <<"/">> \o GetBranchName(zip.platform)
                              \o <<".", "z", "i", "p">>

\* The tags of the last getZipURL have versions made of numbers and no empty
\* extension
PlainTags ==
    \A k \in 1..Len(AskedTags) :
        /\ AskedTags[k].version.major # NaN /\ AskedTags[k].version.minor # NaN
        /\ AskedTags[k].version.increment # NaN
        /\ Len(AskedTags[k].extension) > 0

\* What C25 says holds when every tag has a version made of numbers and no
\* empty extension
C25_HoldsOfPlainTags == (zip.called /\ PlainTags) => C25_GreatestCompatibleTag

------------------------------------------------------------------------------
(* downloadProject *)

\* The items that were in the folder and whose name parses as a version
VersionItems ==
    {downloads.before[q] : q \in {x \in 1..Len(downloads.before) :
                                     IsVersionFormat(downloads.before[x])}}

\* C26: after downloadProject every item that was in the folder and whose
\* name parses as a version different from the selected one is deleted, no
\* item whose name is not a version is deleted, and the download started
\* iff no item carried the selected version.
C26_OnlySelectedVersionKept ==
    downloads.called =>
        /\ \A name \in VersionItems :
              NewVersion(name) # downloads.selected => name \in downloads.deleted
        /\ downloads.deleted \subseteq VersionItems
        /\ downloads.started <=> ~\E name \in VersionItems : NewVersion(name) = downloads.selected

\* The names of the items and the selected version are made of numbers
PlainItems ==
    /\ \A name \in VersionItems :
          /\ NewVersion(name).major # NaN /\ NewVersion(name).minor # NaN
          /\ NewVersion(name).increment # NaN
    /\ downloads.selected.major # NaN /\ downloads.selected.minor # NaN
    /\ downloads.selected.increment # NaN

\* What C26 says holds when every version is made of numbers
C26_HoldsOfPlainItems == (downloads.called /\ PlainItems) => C26_OnlySelectedVersionKept

====
